---------------------------- MODULE Spec2Model ----------------------------
(***************************************************************************)
(* golem-herder: the credit ledger (metering), the daemon supervisor, the  *)
(* minion lambda, the golem controller and the broker hub, modelled from   *)
(* the Go sources.                                                         *)
(***************************************************************************)
EXTENDS Integers, Sequences, FiniteSets, TLC

(***************************************************************************)
(* Bounds of the model.                                                    *)
(***************************************************************************)
\* largest credit grant ("crd") a token of the ledger specification carries
MaxGrant == 2
\* largest amount one direct Record call debits in the ledger specification
MaxDebit == 2

VARIABLES
    db,         \* meter.db: subject id -> bucket (exists, Credits, Tokens)
    lastCall    \* the last call made on the ledger API and its outcome

ledgerVars == <<db, lastCall>>

VARIABLES
    dpc,        \* daemon.SpawnHandler: where each spawn request stands
    dreq,       \* its inputs: the validated token's claims and the form's name
    dcredits,   \* the balance its m.Credits() call returned
    cont,       \* the container its RunDaemonized created, as the engine sees it
    spc,        \* the supervisor task of RunDaemonized
    doneCh,     \* Spawn's buffered done channel: values waiting in it
    mpc,        \* the metering task of Spawn
    debits,     \* the successful Record calls its metering task has made
    foreign,    \* another request changed its subject's balance since its check
    extDone     \* the receiver of options.Done started by SpawnHandler

daemonVars == <<dpc, dreq, dcredits, cont, spc, doneCh, mpc, debits, foreign, extDone>>

VARIABLES
    lpc,        \* minion.Spawn: where each lambda invocation stands
    tmpdirs,    \* the temp directories that exist under /tmp
    lcont,      \* the container of each invocation, as the engine sees it
    lres        \* how the invocation came to return

lambdaVars == <<lpc, tmpdirs, lcont, lres>>

VARIABLES
    cpc,        \* golem.Spawn / Kill / Restart: where each request stands
    creq,       \* its operation and webstrate id
    cfound,     \* Kill: the containers its List call matched
    gcont       \* the container each request created, as the engine sees it

ctlVars == <<cpc, creq, cfound, gcont>>

VARIABLES
    mutex,      \* minion.go: the package mutex, TRUE while some goroutine holds it
    golems,     \* the registry golems: webstrate id -> golem
    minions,    \* the registry minions: webstrate id -> the ids registered under it
    gol,        \* per golem connection: handler, channels to and done, writer, socket
    mini,       \* per minion connection: handler, channels to, from and done, writer, socket
    pair        \* per connect-to connection: handler, writer, socket

hubVars == <<mutex, golems, minions, gol, mini, pair>>

VARIABLES
    eng,        \* the daemon API: the engine's containers, by container id
    apc,        \* where each request to the daemon API stands
    areq,       \* the request: operation, token, name and wipe flag
    afound,     \* daemon.Kill: the containers its List call matched
    aresp       \* the containers a list or attach request was answered with

apiVars == <<eng, apc, areq, afound, aresp>>

VARIABLES
    spawned     \* daemon.Spawn: the name, token id and uname of the spawns made

nameVars == <<spawned>>

VARIABLES
    fastRestarts \* the supervisor of a daemon: its consecutive fast restarts

restartVars == <<fastRestarts>>

VARIABLES
    ppc,            \* daemon.Spawn's port allocation: where it stands
    optionsPorts,   \* options.Ports, the declared inside ports
    nextPort,       \* the position of the loop over options.Ports
    ports,          \* the map outside -> inside handed to RunDaemonized
    invertedPorts,  \* the map inside -> outside returned in Info.Ports
    portBindings    \* run: the host port the engine binds each inside port to

portVars == <<ppc, optionsPorts, nextPort, ports, invertedPorts, portBindings>>

vars == <<ledgerVars, daemonVars, lambdaVars, ctlVars, hubVars, apiVars, nameVars,
          restartVars, portVars>>

\* what the steps of one component leave alone
idleLedger == <<daemonVars, lambdaVars, ctlVars, hubVars, apiVars, nameVars, restartVars,
    portVars>>
idleDaemon == <<lambdaVars, ctlVars, hubVars, apiVars, nameVars, restartVars,
    portVars>>
idleLambda == <<ledgerVars, daemonVars, ctlVars, hubVars, apiVars, nameVars, restartVars,
    portVars>>
idleCtl == <<ledgerVars, daemonVars, lambdaVars, hubVars, apiVars, nameVars, restartVars,
    portVars>>
idleHub == <<ledgerVars, daemonVars, lambdaVars, ctlVars, apiVars, nameVars, restartVars,
    portVars>>
idleApi == <<lastCall, daemonVars, lambdaVars, ctlVars, hubVars, nameVars, restartVars,
    portVars>>
idleNames == <<ledgerVars, daemonVars, lambdaVars, ctlVars, hubVars, apiVars, restartVars,
    portVars>>
idleRestart == <<lambdaVars, ctlVars, hubVars, apiVars, nameVars, portVars>>
idlePorts == <<ledgerVars, daemonVars, lambdaVars, ctlVars, hubVars, apiVars, nameVars,
    restartVars>>

\* no spawn has been made
InitNameVars == spawned = {}

\* the ports a container declares and the ports of the host
InsidePorts == {80, 443, 8080}
HostPorts == {32768, 32769, 32770}
\* the number of ports one spawn declares
MaxPorts == 2
\* no entry for a key of a map[int]int
NoPort == 0

\* no spawn has allocated a port
InitPortVars ==
    /\ ppc = "idle"
    /\ optionsPorts = <<>>
    /\ nextPort = 1
    /\ ports = [o \in HostPorts |-> NoPort]
    /\ invertedPorts = [i \in InsidePorts |-> NoPort]
    /\ portBindings = [i \in InsidePorts |-> NoPort]

\* the requests to the daemon API and the container ids the engine hands out
ApiRequests == {"q1"}
ContainerIDs == {"c1", "c2", "c3"}

\* a string that is no JWT, and the request the variables start with
NotAToken ==
    [wellformed |-> FALSE, alg |-> "", signer |-> "nobody",
     claims |-> [sub |-> "", jti |-> "", crd |-> 0, exp |-> 0]]
NoRequest ==
    [op |-> "none", token |-> NotAToken, t |-> [ok |-> FALSE, claims |-> NotAToken.claims],
     name |-> <<>>, wipe |-> FALSE]

InitApiVars ==
    /\ eng = [c \in ContainerIDs |-> [state |-> "none", name |-> <<>>, subject |-> ""]]
    /\ apc = [a \in ApiRequests |-> "idle"]
    /\ areq = [a \in ApiRequests |-> NoRequest]
    /\ afound = [a \in ApiRequests |-> {}]
    /\ aresp = [a \in ApiRequests |-> {}]

\* the connections the hub serves: golem control sockets, minion sockets and
\* connect-to (pairing) sockets
GolemConns == {"g1", "g2", "g3"}
MinionConns == {"m1", "m2"}
PairConns == {"p1", "p2"}
HubWSIDs == {"w1"}
MinionTypes == {"worker", ""}

\* the capacity of the channels to, from and done (100 in the code)
ChanCap == 2
\* the number of polls for a golem (100 in the code)
MaxPolls == 2
\* the data frames a peer sends on one socket
MaxFrames == 1

\* a nil *Golem
Nil == "nil"

InitHubVars ==
    /\ mutex = FALSE
    /\ golems = [w \in HubWSIDs |-> Nil]
    /\ minions = [w \in HubWSIDs |-> {}]
    /\ gol = [g \in GolemConns |->
                [pc |-> "idle", ws |-> "w1", to |-> <<>>, done |-> 0,
                 wpc |-> "none", sock |-> "none", out |-> <<>>]]
    /\ mini = [m \in MinionConns |->
                [pc |-> "idle", ws |-> "w1", type |-> "worker", golem |-> Nil,
                 polls |-> 0, to |-> <<>>, from |-> <<>>, done |-> 0,
                 wpc |-> "none", sock |-> "none", out |-> <<>>, recv |-> 0]]
    /\ pair = [p \in PairConns |->
                [pc |-> "idle", ws |-> "w1", minion |-> "m1",
                 wpc |-> "none", sock |-> "none", out |-> <<>>, recv |-> 0]]

\* minion.Spawn invocations
Lambdas == {"l1", "l2"}

InitLambdaVars ==
    /\ lpc = [l \in Lambdas |-> "idle"]
    /\ tmpdirs = {}
    /\ lcont = [l \in Lambdas |-> "none"]
    /\ lres = [l \in Lambdas |-> "none"]

\* requests to the golem controller and the webstrate ids they name
CtlRequests == {"r1", "r2", "r3"}
WSIDs == {"w1", "w2"}

\* getName: fmt.Sprintf("golem-%s", id)
getName(id) == <<"golem-", id>>

InitCtlVars ==
    /\ cpc = [r \in CtlRequests |-> "idle"]
    /\ creq = [r \in CtlRequests |-> [op |-> "spawn", ws |-> "w1"]]
    /\ cfound = [r \in CtlRequests |-> {}]
    /\ gcont = [r \in CtlRequests |-> [state |-> "none", ws |-> "w1"]]


(***************************************************************************)
(* strconv.Itoa / strconv.Atoi: the store keeps every integer as a decimal *)
(* string.  The empty sequence stands for bolt's nil (key absent).         *)
(***************************************************************************)
DigitChars == <<"0", "1", "2", "3", "4", "5", "6", "7", "8", "9">>

RECURSIVE itoaDigits(_)
itoaDigits(n) ==
    IF n < 10 THEN <<DigitChars[n + 1]>>
    ELSE itoaDigits(n \div 10) \o <<DigitChars[(n % 10) + 1]>>

Itoa(n) == IF n < 0 THEN <<"-">> \o itoaDigits(-n) ELSE itoaDigits(n)

DigitVal(c) == CHOOSE d \in 0..9 : DigitChars[d + 1] = c

RECURSIVE atoiDigits(_, _)
atoiDigits(s, acc) ==
    IF s = <<>> THEN acc
    ELSE atoiDigits(Tail(s), acc * 10 + DigitVal(Head(s)))

Atoi(s) == IF Head(s) = "-" THEN -atoiDigits(Tail(s), 0) ELSE atoiDigits(s, 0)

(***************************************************************************)
(* The credit ledger (package metering).                                   *)
(***************************************************************************)
Subjects == {"a", "b"}
TokenIDs == {"j1", "j2"}
Expirations == {7, 12}

NoBucket == [exists |-> FALSE, Credits |-> <<>>, Tokens |-> [j \in TokenIDs |-> <<>>]]

\* NewMeter without the "token already used" test: every call adds the grant
NewMeter_NoTokenCheck(d, id, token, expiration, credits) ==
    LET b == d[id] IN
    [d EXCEPT ![id] =
        [exists  |-> TRUE,
         Tokens  |-> [b.Tokens EXCEPT ![token] = Itoa(expiration)],
         Credits |-> IF b.Credits # <<>>
                     THEN Itoa(Atoi(b.Credits) + credits)
                     ELSE Itoa(credits)]]

\* NewMeter's transaction: the store after db.Update
NewMeter(d, id, token, expiration, credits) ==
    LET b == d[id] IN
    IF b.Tokens[token] = <<>>
    THEN [d EXCEPT ![id] =
            [exists  |-> TRUE,
             Tokens  |-> [b.Tokens EXCEPT ![token] = Itoa(expiration)],
             Credits |-> IF b.Credits # <<>>
                         THEN Itoa(Atoi(b.Credits) + credits)
                         ELSE Itoa(credits)]]
    ELSE [d EXCEPT ![id].exists = TRUE]

\* readIntegers("Credits"): the value and whether the view failed
readIntegers(d, id) ==
    IF d[id].exists
    THEN [err |-> FALSE,
          val |-> IF d[id].Credits # <<>> THEN Atoi(d[id].Credits) ELSE 0]
    ELSE [err |-> TRUE, val |-> 0]

\* Meter.Credits
Credits(d, id) == readIntegers(d, id)

\* the balance Record reads inside its transaction
Remaining(d, id) == IF d[id].Credits # <<>> THEN Atoi(d[id].Credits) ELSE 0

\* Record that refuses a debit larger than the balance
RecordErr_NoOverdraft(d, id, credits) ==
    IF ~d[id].exists THEN "Could not update for given id"
    ELSE IF Remaining(d, id) < credits THEN "no credits left"
    ELSE "ok"

\* a Record that refuses only a balance below zero
RecordErr_AllowsZero(d, id, credits) ==
    IF ~d[id].exists THEN "Could not update for given id"
    ELSE IF Remaining(d, id) < 0 THEN "no credits left"
    ELSE "ok"

\* Meter.Record: the error it returns ("ok" for nil)
RecordErr(d, id, credits) ==
    IF ~d[id].exists THEN "Could not update for given id"
    ELSE IF Remaining(d, id) <= 0 THEN "no credits left"
    ELSE "ok"

\* a debit read from a stale balance, so that it is applied twice
Record_Twice(d, id, credits) ==
    IF RecordErr(d, id, credits) = "ok"
    THEN [d EXCEPT ![id].Credits = Itoa(Remaining(d, id) - 2 * credits)]
    ELSE d

\* Meter.Record: the store after the transaction
Record(d, id, credits) ==
    IF RecordErr(d, id, credits) = "ok"
    THEN [d EXCEPT ![id].Credits = Itoa(Remaining(d, id) - credits)]
    ELSE d

NoCall == [op |-> "none", id |-> "a", token |-> "j1", credits |-> 0, err |-> "ok"]

InitLedgerVars ==
    /\ db = [s \in Subjects |-> NoBucket]
    /\ lastCall = NoCall

(***************************************************************************)
(* The daemon supervisor (package daemon) over the container facade.       *)
(***************************************************************************)
Daemons == {"d1", "d2"}

\* the validated tokens spawn requests carry: sub, jti, crd and exp claims
DaemonTokens ==
    { [sub |-> "a", jti |-> "j1", crd |-> MaxGrant, exp |-> 7],
      [sub |-> "a", jti |-> "j2", crd |-> 1, exp |-> 12],
      [sub |-> "b", jti |-> "j1", crd |-> 0, exp |-> 7] }

\* the "name" form value, as a string of characters
DaemonNames == { <<"s">> }

\* the length of a token id and the characters it is made of: xid.New().String()
\* is 20 characters of 0-9 and a-v
XidLen == 2
XidAlphabet == {"0", "v"}

\* token ids of any length that may hold a hyphen
XidStrings_AnyLength == UNION { [1..n -> XidAlphabet \cup {"-"}] : n \in 1..(XidLen + 1) }

\* the "jti" claims Generate puts into tokens, as strings of characters
XidStrings == [1..XidLen -> XidAlphabet]

\* the characters of the token ids the ledger and the daemons know by name
XidOf(jti) == [i \in 1..XidLen |-> IF jti = "j1" THEN "0" ELSE "v"]

\* fmt.Sprintf("%s-%v", name, id) on strings of characters
Sprintf(name, id) == name \o <<"-">> \o id

\* uname := fmt.Sprintf("%s-%v", name, claims["jti"])
Uname(name, jti) == Sprintf(name, XidOf(jti))

unameOf(d) == Uname(dreq[d].name, dreq[d].tok.jti)
subjectOf(d) == dreq[d].tok.sub

NanosPerSecond == 1000000000

\* time.Now().UnixNano() - t0 when time.After(time.Second) has fired
TickNanos == { NanosPerSecond, NanosPerSecond + 1, 2 * NanosPerSecond - 1 }

\* the older schema's unit: the elapsed time in milliseconds
TickCredits_Millis(elapsed) == elapsed \div 1000000

\* ms := (time.Now().UnixNano() - t0) / 1e9
TickCredits(elapsed) == elapsed \div NanosPerSecond

\* the check refuses only a negative balance
NoFunds_OnlyNegative(c) == c.err \/ c.val < 0

\* if credits, err := m.Credits(); err != nil || credits <= 0
NoFunds(c) == c.err \/ c.val <= 0

\* a supervisor starts with no restart made
InitRestartVars == fastRestarts = [d \in Daemons |-> 0]

InitDaemonVars ==
    /\ dpc = [d \in Daemons |-> "idle"]
    /\ dreq = [d \in Daemons |->
                 [tok |-> [sub |-> "a", jti |-> "j1", crd |-> MaxGrant, exp |-> 7],
                  name |-> <<"s">>]]
    /\ dcredits = [d \in Daemons |-> 0]
    /\ cont = [d \in Daemons |-> "none"]
    /\ spc = [d \in Daemons |-> "none"]
    /\ doneCh = [d \in Daemons |-> 0]
    /\ mpc = [d \in Daemons |-> "none"]
    /\ debits = [d \in Daemons |-> 0]
    /\ foreign = [d \in Daemons |-> FALSE]
    /\ extDone = [d \in Daemons |-> "none"]

InitDaemon ==
    /\ InitLedgerVars
    /\ InitDaemonVars
    /\ InitLambdaVars
    /\ InitCtlVars
    /\ InitHubVars
    /\ InitApiVars
    /\ InitNameVars
    /\ InitRestartVars
    /\ InitPortVars

\* the requests whose balance was read and that now see it changed by request e
ForeignAfter(e, sub, db2) ==
    [d \in Daemons |->
        foreign[d] \/ ( /\ d # e
                        /\ dpc[d] \in {"spawn", "resp200"}
                        /\ subjectOf(d) = sub
                        /\ db2[sub].Credits # db[sub].Credits )]

\* SpawnHandler up to metering.NewMeter(subject, tokenID, expiration, credits)
SpawnTopUp(d, tok, name) ==
    /\ UNCHANGED idleDaemon
    /\ dpc[d] = "idle"
    /\ dreq' = [dreq EXCEPT ![d] = [tok |-> tok, name |-> name]]
    /\ db' = NewMeter(db, tok.sub, tok.jti, tok.exp, tok.crd)
    /\ lastCall' = [op |-> "NewMeter", id |-> tok.sub, token |-> tok.jti,
                    credits |-> tok.crd, err |-> "ok"]
    /\ foreign' = ForeignAfter(d, tok.sub, db')
    /\ dpc' = [dpc EXCEPT ![d] = "topped"]
    /\ UNCHANGED <<dcredits, cont, spc, doneCh, mpc, debits, extDone>>

\* a handler that starts no goroutine receiving from its done channel
SpawnCheckCredits_NoReceiver(d) ==
    /\ UNCHANGED idleDaemon
    /\ dpc[d] = "topped"
    /\ LET c == Credits(db, subjectOf(d)) IN
         IF NoFunds(c)
         THEN /\ dpc' = [dpc EXCEPT ![d] = "resp402"]
              /\ UNCHANGED dcredits
         ELSE /\ dpc' = [dpc EXCEPT ![d] = "spawn"]
              /\ dcredits' = [dcredits EXCEPT ![d] = c.val]
    /\ UNCHANGED <<ledgerVars, dreq, cont, spc, doneCh, mpc, debits, foreign, extDone>>

\* SpawnHandler: m.Credits(), 402 or go on; the receiver of done is started
SpawnCheckCredits(d) ==
    /\ UNCHANGED idleDaemon
    /\ dpc[d] = "topped"
    /\ LET c == Credits(db, subjectOf(d)) IN
         IF NoFunds(c)
         THEN /\ dpc' = [dpc EXCEPT ![d] = "resp402"]
              /\ UNCHANGED <<dcredits, extDone>>
         ELSE /\ dpc' = [dpc EXCEPT ![d] = "spawn"]
              /\ dcredits' = [dcredits EXCEPT ![d] = c.val]
              /\ extDone' = [extDone EXCEPT ![d] = "waiting"]
    /\ UNCHANGED <<ledgerVars, dreq, cont, spc, doneCh, mpc, debits, foreign>>

\* the engine refuses to create a container whose name is taken
NameTaken(d) ==
    \E e \in Daemons \ {d} :
        cont[e] \in {"created", "running", "exited"} /\ unameOf(e) = unameOf(d)

\* Spawn: RunDaemonized (pull, create, start), then the supervisor and the
\* metering task are started; an engine failure is answered 500
SpawnRun(d, outcome) ==
    /\ UNCHANGED idleDaemon
    /\ dpc[d] = "spawn"
    /\ IF outcome = "ok" /\ ~NameTaken(d)
       THEN /\ cont' = [cont EXCEPT ![d] = "running"]
            /\ spc' = [spc EXCEPT ![d] = "poll"]
            /\ mpc' = [mpc EXCEPT ![d] = "tick"]
            /\ dpc' = [dpc EXCEPT ![d] = "resp200"]
       ELSE /\ cont' = [cont EXCEPT ![d] =
                          IF outcome = "startfail" /\ ~NameTaken(d)
                          THEN "created" ELSE "none"]
            /\ dpc' = [dpc EXCEPT ![d] = "resp500"]
            /\ UNCHANGED <<spc, mpc>>
    /\ UNCHANGED <<ledgerVars, dreq, dcredits, doneCh, debits, foreign, extDone>>

\* the container's process ends by itself
ContainerExit(d) ==
    /\ UNCHANGED idleDaemon
    /\ cont[d] = "running"
    /\ cont' = [cont EXCEPT ![d] = "exited"]
    /\ UNCHANGED <<ledgerVars, dpc, dreq, dcredits, spc, doneCh, mpc, debits,
                   foreign, extDone>>

\* the supervisor's poll finds the container gone or not running: done <- true
SupervisorPoll(d) ==
    /\ UNCHANGED idleDaemon
    /\ spc[d] = "poll"
    /\ cont[d] # "running"
    /\ doneCh' = [doneCh EXCEPT ![d] = @ + 1]
    /\ spc' = [spc EXCEPT ![d] = "remove"]
    /\ UNCHANGED <<ledgerVars, dpc, dreq, dcredits, cont, mpc, debits, foreign,
                   extDone>>

\* a supervisor that returns without removing the container
SupervisorRemove_Leaves(d) ==
    /\ UNCHANGED idleDaemon
    /\ spc[d] = "remove"
    /\ spc' = [spc EXCEPT ![d] = "done"]
    /\ UNCHANGED <<ledgerVars, dpc, dreq, dcredits, cont, doneCh, mpc, debits, foreign,
                   extDone>>

\* the supervisor's deferred RemoveContainer(c.ID, Force)
SupervisorRemove(d) ==
    /\ UNCHANGED idleDaemon
    /\ spc[d] = "remove"
    /\ cont' = [cont EXCEPT ![d] = "removed"]
    /\ spc' = [spc EXCEPT ![d] = "done"]
    /\ UNCHANGED <<ledgerVars, dpc, dreq, dcredits, doneCh, mpc, debits, foreign,
                   extDone>>

\* the metering task: time.After fires and Meter.Record(int(ms)) is called
MeterTick(d, elapsed) ==
    /\ UNCHANGED idleDaemon
    /\ mpc[d] = "tick"
    /\ LET sub == subjectOf(d)
           c   == TickCredits(elapsed)
           err == RecordErr(db, sub, c)
       IN  /\ db' = Record(db, sub, c)
           /\ lastCall' = [op |-> "Record", id |-> sub, token |-> "j1",
                           credits |-> c, err |-> err]
           /\ foreign' = ForeignAfter(d, sub, db')
           /\ IF err = "ok"
              THEN /\ debits' = [debits EXCEPT ![d] = @ + 1]
                   /\ UNCHANGED mpc
              ELSE /\ mpc' = [mpc EXCEPT ![d] = "kill"]
                   /\ UNCHANGED debits
    /\ UNCHANGED <<dpc, dreq, dcredits, cont, spc, doneCh, extDone>>

\* the running containers container.List finds for WithName(uname)
WithName(name) == { e \in Daemons : cont[e] = "running" /\ unameOf(e) = name }

\* the metering task gives up without removing the container
MeterKill_NoRemove(d) ==
    /\ UNCHANGED idleDaemon
    /\ mpc[d] = "kill"
    /\ mpc' = [mpc EXCEPT ![d] = "notify"]
    /\ UNCHANGED <<ledgerVars, dpc, dreq, dcredits, cont, spc, doneCh, debits,
                   foreign, extDone>>

\* a kill that resolves the name among stopped containers too
MeterKill_Stopped(d) ==
    /\ UNCHANGED idleDaemon
    /\ mpc[d] = "kill"
    /\ LET containers == { e \in Daemons : cont[e] \in {"running", "exited"}
                                            /\ unameOf(e) = unameOf(d) }
       IN  IF Cardinality(containers) # 1
           THEN UNCHANGED cont
           ELSE cont' = [e \in Daemons |->
                           IF e \in containers THEN "removed" ELSE cont[e]]
    /\ mpc' = [mpc EXCEPT ![d] = "notify"]
    /\ UNCHANGED <<ledgerVars, dpc, dreq, dcredits, spc, doneCh, debits, foreign,
                   extDone>>

\* the metering task: container.Kill(container.WithName(uname)), then return
MeterKill(d) ==
    /\ UNCHANGED idleDaemon
    /\ mpc[d] = "kill"
    /\ LET containers == WithName(unameOf(d)) IN
         IF Cardinality(containers) # 1
         THEN UNCHANGED cont
         ELSE cont' = [e \in Daemons |->
                         IF e \in containers THEN "removed" ELSE cont[e]]
    /\ mpc' = [mpc EXCEPT ![d] = "notify"]
    /\ UNCHANGED <<ledgerVars, dpc, dreq, dcredits, spc, doneCh, debits, foreign,
                   extDone>>

\* the metering task: case <-done
MeterDone(d) ==
    /\ UNCHANGED idleDaemon
    /\ mpc[d] = "tick"
    /\ doneCh[d] > 0
    /\ doneCh' = [doneCh EXCEPT ![d] = @ - 1]
    /\ mpc' = [mpc EXCEPT ![d] = "notify"]
    /\ UNCHANGED <<ledgerVars, dpc, dreq, dcredits, cont, spc, debits, foreign,
                   extDone>>

\* the metering task's deferred options.Done <- true, met by SpawnHandler's <-done
MeterNotify(d) ==
    /\ UNCHANGED idleDaemon
    /\ mpc[d] = "notify"
    /\ extDone[d] = "waiting"
    /\ extDone' = [extDone EXCEPT ![d] = "got"]
    /\ mpc' = [mpc EXCEPT ![d] = "exited"]
    /\ UNCHANGED <<ledgerVars, dpc, dreq, dcredits, cont, spc, doneCh, debits,
                   foreign>>

NextDaemon ==
    \/ \E d \in Daemons, tok \in DaemonTokens, name \in DaemonNames :
          SpawnTopUp(d, tok, name)
    \/ \E d \in Daemons : SpawnCheckCredits(d)
    \/ \E d \in Daemons, outcome \in {"ok", "pullfail", "startfail"} :
          SpawnRun(d, outcome)
    \/ \E d \in Daemons : ContainerExit(d)
    \/ \E d \in Daemons : SupervisorPoll(d)
    \/ \E d \in Daemons : SupervisorRemove(d)
    \/ \E d \in Daemons, elapsed \in TickNanos : MeterTick(d, elapsed)
    \/ \E d \in Daemons : MeterKill(d)
    \/ \E d \in Daemons : MeterDone(d)
    \/ \E d \in Daemons : MeterNotify(d)

SpecDaemon == InitDaemon /\ [][NextDaemon]_vars

(***************************************************************************)
(* C2: for every subject and token id, the first NewMeter call with that   *)
(* token records it in Tokens and adds its grant to Credits; every later   *)
(* call with it, from a repeated or concurrent spawn request, changes      *)
(* neither Tokens nor the balance.                                         *)
(***************************************************************************)
C2_TopUpOncePerToken ==
    [][(lastCall'.op = "NewMeter" /\ (lastCall' # lastCall \/ db' # db)) =>
        LET id == lastCall'.id
            j  == lastCall'.token
            c  == lastCall'.credits
        IN  /\ \A s \in Subjects \ {id} : db'[s] = db[s]
            /\ IF db[id].Tokens[j] # <<>>
               THEN db'[id] = db[id]
               ELSE /\ db'[id].Tokens[j] # <<>>
                    /\ \A k \in TokenIDs \ {j} : db'[id].Tokens[k] = db[id].Tokens[k]
                    /\ Remaining(db', id) = Remaining(db, id) + c]_vars

\* two spawn requests carried the same token, and its grant is there once
C2_Witness ==
    /\ dpc["d1"] # "idle" /\ dpc["d2"] = "topped"
    /\ dreq["d1"].tok = dreq["d2"].tok
    /\ dreq["d1"].tok.crd > 0
    /\ lastCall.op = "NewMeter"
    /\ debits["d1"] = 0
    /\ Remaining(db, subjectOf("d1")) = dreq["d1"].tok.crd

(***************************************************************************)
(* C4: while a daemon runs, every tick of its metering task debits one     *)
(* credit from its subject; on the first tick on which Record fails the    *)
(* task kills the container it finds under the daemon's unique name and    *)
(* exits, without another tick.                                            *)
(***************************************************************************)
C4_MeteringDebitsThenKills ==
    [][\A d \in Daemons :
        /\ (mpc[d] = "tick" /\ (debits'[d] # debits[d] \/ mpc'[d] = "kill")) =>
              LET sub == subjectOf(d) IN
              IF Remaining(db, sub) > 0
              THEN /\ Remaining(db', sub) = Remaining(db, sub) - 1
                   /\ debits'[d] = debits[d] + 1
                   /\ mpc'[d] = "tick"
              ELSE /\ db' = db
                   /\ debits'[d] = debits[d]
                   /\ mpc'[d] = "kill"
        /\ (mpc[d] = "kill" /\ mpc'[d] # "kill") =>
              /\ mpc'[d] = "notify"
              /\ \A e \in Daemons :
                    unameOf(e) = unameOf(d) => cont'[e] # "running"
              /\ cont[d] = "running" => cont'[d] = "removed"
        /\ (mpc[d] \in {"kill", "notify", "exited"}) => mpc'[d] # "tick"]_vars

\* a metering task found the balance exhausted and removed its running container
C4_Witness ==
    \E d \in Daemons :
        /\ mpc[d] = "notify"
        /\ debits[d] > 0
        /\ cont[d] = "removed"
        /\ spc[d] = "poll"
        /\ Remaining(db, subjectOf(d)) = 0

(***************************************************************************)
(* C5: a spawn request whose subject balance is <= 0 after the top-up step *)
(* is answered 402 and starts no container and no metering task.           *)
(***************************************************************************)
C5_NoFundsIs402 ==
    [][\A d \in Daemons :
        /\ (dpc[d] = "topped" /\ dpc'[d] # "topped") =>
              IF ~db[subjectOf(d)].exists \/ Remaining(db, subjectOf(d)) <= 0
              THEN /\ dpc'[d] = "resp402"
                   /\ cont' = cont /\ mpc' = mpc /\ spc' = spc /\ db' = db
              ELSE dpc'[d] = "spawn"
        /\ dpc[d] = "resp402" =>
              /\ dpc'[d] = "resp402"
              /\ cont'[d] = "none" /\ mpc'[d] = "none" /\ spc'[d] = "none"]_vars

\* a request re-using a token whose grant was consumed by an earlier daemon
C5_Witness ==
    /\ dpc["d2"] = "resp402"
    /\ dreq["d2"].tok = dreq["d1"].tok
    /\ dreq["d1"].tok.crd > 0
    /\ debits["d1"] = dreq["d1"].tok.crd
    /\ cont["d2"] = "none" /\ mpc["d2"] = "none"

(***************************************************************************)
(* C6: a daemon spawned on a balance N > 0, whose subject's balance no     *)
(* other request changes, has made exactly N successful one-credit debits  *)
(* when its Record first fails (the (N+1)-th call), which sends the        *)
(* metering task to kill the container.                                    *)
(***************************************************************************)
C6_ExactlyNDebits ==
    \A d \in Daemons :
        (mpc[d] # "none" /\ ~foreign[d]) =>
            /\ dcredits[d] > 0
            /\ debits[d] <= dcredits[d]
            /\ mpc[d] = "tick" =>
                 Remaining(db, subjectOf(d)) = dcredits[d] - debits[d]
            /\ mpc[d] = "kill" =>
                 /\ debits[d] = dcredits[d]
                 /\ Remaining(db, subjectOf(d)) = 0

\* an undisturbed daemon used up a balance of MaxGrant and is about to be killed
C6_Witness ==
    \E d \in Daemons :
        /\ mpc[d] = "kill" /\ ~foreign[d]
        /\ dcredits[d] = MaxGrant /\ debits[d] = MaxGrant
        /\ cont[d] = "running"

(***************************************************************************)
(* The minion lambda (minion.Spawn over container.RunLambda).              *)
(***************************************************************************)
\* Spawn: ioutil.TempDir("/tmp", "minion-")
LambdaTempDir(l, ok) ==
    /\ UNCHANGED idleLambda
    /\ lpc[l] = "idle"
    /\ IF ok
       THEN /\ tmpdirs' = tmpdirs \cup {l}
            /\ lpc' = [lpc EXCEPT ![l] = "load"]
            /\ UNCHANGED lres
       ELSE /\ lpc' = [lpc EXCEPT ![l] = "returned"]
            /\ lres' = [lres EXCEPT ![l] = "tmpfail"]
            /\ UNCHANGED tmpdirs
    /\ UNCHANGED lcont

\* Spawn: container.LoadFiles(dir, files) and the return on its error
LambdaLoadFiles(l, ok) ==
    /\ UNCHANGED idleLambda
    /\ lpc[l] = "load"
    /\ IF ok
       THEN /\ lpc' = [lpc EXCEPT ![l] = "run"]
            /\ UNCHANGED lres
       ELSE /\ lpc' = [lpc EXCEPT ![l] = "returned"]
            /\ lres' = [lres EXCEPT ![l] = "loadfail"]
    /\ UNCHANGED <<tmpdirs, lcont>>

\* RunLambda: run (pull, create, start); its errors are returned as they are
LambdaRun(l, outcome) ==
    /\ UNCHANGED idleLambda
    /\ lpc[l] = "run"
    /\ IF outcome = "ok"
       THEN /\ lcont' = [lcont EXCEPT ![l] = "running"]
            /\ lpc' = [lpc EXCEPT ![l] = "wait"]
            /\ UNCHANGED lres
       ELSE /\ lcont' = [lcont EXCEPT ![l] =
                           IF outcome = "startfail" THEN "created" ELSE "none"]
            /\ lpc' = [lpc EXCEPT ![l] = "returned"]
            /\ lres' = [lres EXCEPT ![l] = outcome]
    /\ UNCHANGED tmpdirs

\* the lambda's process ends
LambdaExit(l) ==
    /\ UNCHANGED idleLambda
    /\ lcont[l] = "running"
    /\ lcont' = [lcont EXCEPT ![l] = "exited"]
    /\ UNCHANGED <<lpc, tmpdirs, lres>>

\* RunLambda: WaitContainerWithContext returns, the container has exited
LambdaWaitExited(l) ==
    /\ UNCHANGED idleLambda
    /\ lpc[l] = "wait"
    /\ lcont[l] = "exited"
    /\ lpc' = [lpc EXCEPT ![l] = "remove"]
    /\ lres' = [lres EXCEPT ![l] = "exited"]
    /\ UNCHANGED <<tmpdirs, lcont>>

\* RunLambda: the 60 s deadline of ctx expires while the container runs
LambdaWaitDeadline(l) ==
    /\ UNCHANGED idleLambda
    /\ lpc[l] = "wait"
    /\ lcont[l] = "running"
    /\ lpc' = [lpc EXCEPT ![l] = "remove"]
    /\ lres' = [lres EXCEPT ![l] = "deadline"]
    /\ UNCHANGED <<tmpdirs, lcont>>

\* a removal without Force, which the engine refuses for a running container
LambdaRemove_NoForce(l) ==
    /\ UNCHANGED idleLambda
    /\ lpc[l] = "remove"
    /\ lcont' = [lcont EXCEPT ![l] = IF lcont[l] = "running" THEN "running" ELSE "removed"]
    /\ lpc' = [lpc EXCEPT ![l] = "returned"]
    /\ UNCHANGED <<tmpdirs, lres>>

\* RunLambda's deferred RemoveContainer(Force, RemoveVolumes); Spawn returns
LambdaRemove(l) ==
    /\ UNCHANGED idleLambda
    /\ lpc[l] = "remove"
    /\ lcont' = [lcont EXCEPT ![l] = "removed"]
    /\ lpc' = [lpc EXCEPT ![l] = "returned"]
    /\ UNCHANGED <<tmpdirs, lres>>

NextLambda ==
    \/ \E l \in Lambdas, ok \in BOOLEAN : LambdaTempDir(l, ok)
    \/ \E l \in Lambdas, ok \in BOOLEAN : LambdaLoadFiles(l, ok)
    \/ \E l \in Lambdas, outcome \in {"ok", "pullfail", "createfail", "startfail"} :
          LambdaRun(l, outcome)
    \/ \E l \in Lambdas : LambdaExit(l)
    \/ \E l \in Lambdas : LambdaWaitExited(l)
    \/ \E l \in Lambdas : LambdaWaitDeadline(l)
    \/ \E l \in Lambdas : LambdaRemove(l)

(***************************************************************************)
(* C8: when a lambda invocation returns, whether its container exited,     *)
(* failed to be created or started, or hit the deadline, neither its temp  *)
(* directory nor its container still exists.                               *)
(***************************************************************************)
C8_LambdaLeavesNothing ==
    \A l \in Lambdas :
        lpc[l] = "returned" /\ lres[l] \in {"exited", "createfail", "startfail", "deadline"} =>
            /\ l \notin tmpdirs
            /\ lcont[l] \in {"none", "removed"}

(***************************************************************************)
(* The golem controller (package golem).                                   *)
(***************************************************************************)
\* the containers the engine holds, stopped ones included
GolemContainers == { r \in CtlRequests : gcont[r].state \in {"created", "running", "exited"} }

\* the name and label of the container request r created
gcontName(r) == getName(gcont[r].ws)

\* herder.SpawnHandler / KillHandler / ResetHandler take the request
CtlRequest(r, op, ws) ==
    /\ UNCHANGED idleCtl
    /\ cpc[r] = "idle"
    /\ creq' = [creq EXCEPT ![r] = [op |-> op, ws |-> ws]]
    /\ cpc' = [cpc EXCEPT ![r] = IF op = "spawn" THEN "pull" ELSE "list"]
    /\ UNCHANGED <<cfound, gcont>>

\* Spawn: PullImage, os.Getwd, ReadFile("chrome.json")
GolemPrepare(r, ok) ==
    /\ UNCHANGED idleCtl
    /\ cpc[r] = "pull"
    /\ cpc' = [cpc EXCEPT ![r] = IF ok THEN "create" ELSE "failed"]
    /\ UNCHANGED <<creq, cfound, gcont>>

\* CreateContainer without a Name: the engine then never refuses it
GolemCreate_Unnamed(r) ==
    /\ UNCHANGED idleCtl
    /\ cpc[r] = "create"
    /\ gcont' = [gcont EXCEPT ![r] = [state |-> "created", ws |-> creq[r].ws]]
    /\ cpc' = [cpc EXCEPT ![r] = "start"]
    /\ UNCHANGED <<creq, cfound>>

\* Spawn: CreateContainer(Name: getName(webstrateID), Labels: webstrate);
\* the engine refuses a name that a container already has
GolemCreate(r) ==
    /\ UNCHANGED idleCtl
    /\ cpc[r] = "create"
    /\ IF \E e \in GolemContainers : gcontName(e) = getName(creq[r].ws)
       THEN /\ cpc' = [cpc EXCEPT ![r] = "failed"]
            /\ UNCHANGED gcont
       ELSE /\ gcont' = [gcont EXCEPT ![r] = [state |-> "created", ws |-> creq[r].ws]]
            /\ cpc' = [cpc EXCEPT ![r] = "start"]
    /\ UNCHANGED <<creq, cfound>>

\* Spawn: StartContainer(container.ID)
GolemStart(r, ok) ==
    /\ UNCHANGED idleCtl
    /\ cpc[r] = "start"
    /\ IF ok /\ gcont[r].state = "created"
       THEN /\ gcont' = [gcont EXCEPT ![r].state = "running"]
            /\ cpc' = [cpc EXCEPT ![r] = "ok"]
       ELSE /\ cpc' = [cpc EXCEPT ![r] = "failed"]
            /\ UNCHANGED gcont
    /\ UNCHANGED <<creq, cfound>>

\* the golem's process ends by itself
GolemExit(r) ==
    /\ UNCHANGED idleCtl
    /\ gcont[r].state = "running"
    /\ gcont' = [gcont EXCEPT ![r].state = "exited"]
    /\ UNCHANGED <<cpc, creq, cfound>>

\* a Restart that goes on to Spawn whatever its Kill returned
GolemKillList_IgnoreError(r) ==
    /\ UNCHANGED idleCtl
    /\ cpc[r] = "list"
    /\ LET found == { e \in CtlRequests :
                          /\ gcont[e].state = "running"
                          /\ gcontName(e) = getName(creq[r].ws) }
       IN  /\ cfound' = [cfound EXCEPT ![r] = found]
           /\ cpc' = [cpc EXCEPT ![r] =
                         IF Cardinality(found) = 1 THEN "kill"
                         ELSE IF creq[r].op = "restart" THEN "pull" ELSE "failed"]
    /\ UNCHANGED <<creq, gcont>>

\* Kill: container.List(image prefix and WithName(getName(id)), all = false)
GolemKillList(r) ==
    /\ UNCHANGED idleCtl
    /\ cpc[r] = "list"
    /\ LET found == { e \in CtlRequests :
                          /\ gcont[e].state = "running"
                          /\ gcontName(e) = getName(creq[r].ws) }
       IN  /\ cfound' = [cfound EXCEPT ![r] = found]
           /\ cpc' = [cpc EXCEPT ![r] =
                         IF Cardinality(found) # 1 THEN "failed" ELSE "kill"]
    /\ UNCHANGED <<creq, gcont>>

\* Kill: KillContainer(golems[0].ID)
GolemKillKill(r) ==
    /\ UNCHANGED idleCtl
    /\ cpc[r] = "kill"
    /\ LET e == CHOOSE e \in cfound[r] : TRUE IN
         IF gcont[e].state = "running"
         THEN /\ gcont' = [gcont EXCEPT ![e].state = "exited"]
              /\ cpc' = [cpc EXCEPT ![r] = "remove"]
         ELSE /\ cpc' = [cpc EXCEPT ![r] = "failed"]
              /\ UNCHANGED gcont
    /\ UNCHANGED <<creq, cfound>>

\* Kill: RemoveContainer(golems[0].ID, RemoveVolumes); Restart goes on to Spawn
GolemKillRemove(r) ==
    /\ UNCHANGED idleCtl
    /\ cpc[r] = "remove"
    /\ LET e == CHOOSE e \in cfound[r] : TRUE IN
         IF gcont[e].state \in {"created", "exited"}
         THEN /\ gcont' = [gcont EXCEPT ![e].state = "removed"]
              /\ cpc' = [cpc EXCEPT ![r] =
                            IF creq[r].op = "restart" THEN "pull" ELSE "ok"]
         ELSE /\ cpc' = [cpc EXCEPT ![r] = "failed"]
              /\ UNCHANGED gcont
    /\ UNCHANGED <<creq, cfound>>

NextCtl ==
    \/ \E r \in CtlRequests, op \in {"spawn", "kill", "restart"}, ws \in WSIDs :
          CtlRequest(r, op, ws)
    \/ \E r \in CtlRequests, ok \in BOOLEAN : GolemPrepare(r, ok)
    \/ \E r \in CtlRequests : GolemCreate(r)
    \/ \E r \in CtlRequests, ok \in BOOLEAN : GolemStart(r, ok)
    \/ \E r \in CtlRequests : GolemExit(r)
    \/ \E r \in CtlRequests : GolemKillList(r)
    \/ \E r \in CtlRequests : GolemKillKill(r)
    \/ \E r \in CtlRequests : GolemKillRemove(r)

(***************************************************************************)
(* C9: after any sequence of golem spawn, kill and restart requests,       *)
(* possibly concurrent and for any webstrate ids, at most one golem        *)
(* container exists per webstrate id.                                      *)
(***************************************************************************)
C9_OneGolemContainerPerWSID ==
    \A ws \in WSIDs :
        Cardinality({ r \in GolemContainers : gcont[r].ws = ws }) <= 1

\* a spawn was refused while the webstrate's golem runs, after an earlier one
\* had been killed and removed
C9_Witness ==
    \E r1, r2, r3 \in CtlRequests :
        /\ gcont[r1].state = "removed" /\ gcont[r1].ws = "w1"
        /\ gcont[r2].state = "running" /\ gcont[r2].ws = "w1"
        /\ creq[r3] = [op |-> "spawn", ws |-> "w1"] /\ cpc[r3] = "failed"
        /\ gcont[r3].state = "none"

InitLedger ==
    /\ InitLedgerVars
    /\ InitDaemonVars
    /\ InitLambdaVars
    /\ InitCtlVars
    /\ InitHubVars
    /\ InitApiVars
    /\ InitNameVars
    /\ InitRestartVars
    /\ InitPortVars

\* a direct call of NewMeter(id, token, expiration, credits)
CallNewMeter(id, token, expiration, credits) ==
    /\ UNCHANGED idleLedger
    /\ db' = NewMeter(db, id, token, expiration, credits)
    /\ lastCall' = [op |-> "NewMeter", id |-> id, token |-> token,
                    credits |-> credits, err |-> "ok"]

\* a direct call of Meter{id}.Record(credits); a Meter exists only after NewMeter
CallRecord(id, credits) ==
    /\ UNCHANGED idleLedger
    /\ db[id].exists
    /\ db' = Record(db, id, credits)
    /\ lastCall' = [op |-> "Record", id |-> id, token |-> "j1",
                    credits |-> credits, err |-> RecordErr(db, id, credits)]

\* a balance query that creates the bucket it does not find
CallCredits_Create(id) ==
    /\ UNCHANGED idleLedger
    /\ db' = [db EXCEPT ![id].exists = TRUE]
    /\ lastCall' = [op |-> "Credits", id |-> id, token |-> "j1",
                    credits |-> Credits(db, id).val,
                    err |-> IF Credits(db, id).err THEN "Could not find bucket" ELSE "ok"]

\* a direct call of Meter{id}.Credits(), whether or not the bucket of id exists:
\* the int it returns and its error
CallCredits(id) ==
    /\ UNCHANGED idleLedger
    /\ db' = db
    /\ lastCall' = [op |-> "Credits", id |-> id, token |-> "j1",
                    credits |-> Credits(db, id).val,
                    err |-> IF Credits(db, id).err THEN "Could not find bucket" ELSE "ok"]

NextLedger ==
    \/ \E id \in Subjects, token \in TokenIDs, e \in Expirations, c \in 0..MaxGrant :
          CallNewMeter(id, token, e, c)
    \/ \E id \in Subjects, c \in 1..MaxDebit : CallRecord(id, c)
    \/ \E id \in Subjects : CallCredits(id)

SpecLedger == InitLedger /\ [][NextLedger]_vars

InitAll ==
    /\ InitLedgerVars
    /\ InitDaemonVars
    /\ InitLambdaVars
    /\ InitCtlVars
    /\ InitHubVars
    /\ InitApiVars
    /\ InitNameVars
    /\ InitRestartVars
    /\ InitPortVars

SpecLambda == InitAll /\ [][NextLambda]_vars

SpecCtl == InitAll /\ [][NextCtl]_vars

(***************************************************************************)
(* C7: Record on a stored balance <= 0 fails with the no-credits error and *)
(* leaves the store unchanged; on a balance > 0 it stores balance - c in   *)
(* the same transaction, also when that is negative, and then the next     *)
(* Record on that subject fails.                                           *)
(***************************************************************************)
C7_RecordDebitsOrRefuses ==
    [][(lastCall'.op = "Record" /\ (lastCall' # lastCall \/ db' # db)) =>
        LET id == lastCall'.id
            c  == lastCall'.credits
            bal == Remaining(db, id)
        IN  IF bal <= 0
            THEN lastCall'.err = "no credits left" /\ db' = db
            ELSE /\ lastCall'.err = "ok"
                 /\ db'[id].Credits = Itoa(bal - c)
                 /\ Atoi(db'[id].Credits) = bal - c
                 /\ \A s \in Subjects \ {id} : db'[s] = db[s]
                 /\ db'[id].Tokens = db[id].Tokens
                 /\ (bal - c <= 0 =>
                        \A c2 \in 1..MaxDebit :
                            RecordErr(db', id, c2) = "no credits left")]_vars

\* a successful Record has left a negative balance
C7_Witness ==
    /\ lastCall.op = "Record"
    /\ lastCall.err = "ok"
    /\ Remaining(db, lastCall.id) < 0


(***************************************************************************)
(* The broker hub (package minion): golem control sockets, minion sockets  *)
(* and connect-to sockets, their channels and the two registries.          *)
(***************************************************************************)
TextMessage == "text"

NewGolemNotFound(id) == [Event |-> "golem-not-found", ID |-> id, Type |-> ""]
NewMinionConnected(id, t) == [Event |-> "minion-connected", ID |-> id, Type |-> t]
NewMinionDisconnected(id) == [Event |-> "minion-disconnected", ID |-> id, Type |-> ""]
NewGolemDisconnected == [Event |-> "golem-disconnected", ID |-> "", Type |-> ""]
NewGolemConnected == [Event |-> "golem-connected", ID |-> "", Type |-> ""]

\* json.Marshal of a ConnectEvent: ID and Type are omitted when empty
Marshal(e) ==
    <<<<"Event", e.Event>>>>
    \o (IF e.ID = "" THEN <<>> ELSE <<<<"ID", e.ID>>>>)
    \o (IF e.Type = "" THEN <<>> ELSE <<<<"Type", e.Type>>>>)

\* Message{Type: websocket.TextMessage, Content: <the marshalled event>}
EventMessage(e) == [Type |-> TextMessage, Content |-> Marshal(e)]

\* the n-th frame the peer sends on socket sock, as ReadMessage returns it
FrameNames == <<"f1", "f2", "f3">>
Payload(sock, n) ==
    [Type |-> TextMessage, Content |-> <<<<"payload", sock>>, <<"frame", FrameNames[n]>>>>]

\* the peer goes away or the network fails: reads and writes on the socket fail
GolemSocketDrop(g) ==
    /\ UNCHANGED idleHub
    /\ gol[g].sock = "open"
    /\ gol' = [gol EXCEPT ![g].sock = "dead"]
    /\ UNCHANGED <<mutex, golems, minions, mini, pair>>

MinionSocketDrop(m) ==
    /\ UNCHANGED idleHub
    /\ mini[m].sock = "open"
    /\ mini' = [mini EXCEPT ![m].sock = "dead"]
    /\ UNCHANGED <<mutex, golems, minions, gol, pair>>

PairSocketDrop(p) ==
    /\ UNCHANGED idleHub
    /\ pair[p].sock = "open"
    /\ pair' = [pair EXCEPT ![p].sock = "dead"]
    /\ UNCHANGED <<mutex, golems, minions, gol, mini>>

(* GolemConnectHandler *)

\* the request on /golem/v1/connect/{webstrate}: mutex.Lock().  This section
\* is two steps, the lock and the section itself; the other sections of the
\* package hold the mutex across one map access and are one step each, taken
\* when the mutex is free.
GolemConnectLock(g, w) ==
    /\ UNCHANGED idleHub
    /\ gol[g].pc = "idle"
    /\ ~mutex
    /\ mutex' = TRUE
    /\ gol' = [gol EXCEPT ![g].pc = "check", ![g].ws = w]
    /\ UNCHANGED <<golems, minions, mini, pair>>

\* the registration without the check golems[webstrate] != nil
GolemConnectRegister_NoCheck(g) ==
    /\ UNCHANGED idleHub
    /\ gol[g].pc = "check"
    /\ golems' = [golems EXCEPT ![gol[g].ws] = g]
    /\ gol' = [gol EXCEPT ![g].pc = "upgrade"]
    /\ mutex' = FALSE
    /\ UNCHANGED <<minions, mini, pair>>

\* a registration whose 409 path returns without mutex.Unlock()
GolemConnectRegister_NoUnlock(g) ==
    /\ UNCHANGED idleHub
    /\ gol[g].pc = "check"
    /\ IF golems[gol[g].ws] # Nil
       THEN /\ gol' = [gol EXCEPT ![g].pc = "rejected409"]
            /\ UNCHANGED <<golems, mutex>>
       ELSE /\ golems' = [golems EXCEPT ![gol[g].ws] = g]
            /\ gol' = [gol EXCEPT ![g].pc = "upgrade"]
            /\ mutex' = FALSE
    /\ UNCHANGED <<minions, mini, pair>>

\* 409 if golems[webstrate] != nil, else golems[webstrate] = golem; Unlock
GolemConnectRegister(g) ==
    /\ UNCHANGED idleHub
    /\ gol[g].pc = "check"
    /\ IF golems[gol[g].ws] # Nil
       THEN /\ gol' = [gol EXCEPT ![g].pc = "rejected409"]
            /\ UNCHANGED golems
       ELSE /\ golems' = [golems EXCEPT ![gol[g].ws] = g]
            /\ gol' = [gol EXCEPT ![g].pc = "upgrade"]
    /\ mutex' = FALSE
    /\ UNCHANGED <<minions, mini, pair>>

\* upgrader.Upgrade; on its error log.Panic unwinds into the deferred delete.
\* On success the writer goroutine starts and the handler enters its read loop
GolemUpgrade(g, ok) ==
    /\ UNCHANGED idleHub
    /\ gol[g].pc = "upgrade"
    /\ gol' = IF ok
              THEN [gol EXCEPT ![g].pc = "read", ![g].sock = "open", ![g].wpc = "run"]
              ELSE [gol EXCEPT ![g].pc = "deferred"]
    /\ UNCHANGED <<mutex, golems, minions, mini, pair>>

\* the read loop: ReadMessage fails, golem.done <- true, break.  (A frame
\* that is read is only logged.)
GolemReadError(g) ==
    /\ UNCHANGED idleHub
    /\ gol[g].pc = "read"
    /\ gol[g].sock # "open"
    /\ gol[g].done < ChanCap
    /\ gol' = [gol EXCEPT ![g].pc = "deferred", ![g].done = @ + 1]
    /\ UNCHANGED <<mutex, golems, minions, mini, pair>>

\* the deferred function: Lock; delete(golems, webstrate); Unlock
GolemDeferred(g) ==
    /\ UNCHANGED idleHub
    /\ gol[g].pc = "deferred"
    /\ ~mutex
    /\ golems' = [golems EXCEPT ![gol[g].ws] = Nil]
    /\ gol' = [gol EXCEPT ![g].pc = "done"]
    /\ UNCHANGED <<mutex, minions, mini, pair>>

\* the writer goroutine: case msg := <-g.to, ws.WriteMessage
GolemWrite(g) ==
    /\ UNCHANGED idleHub
    /\ gol[g].wpc = "run"
    /\ gol[g].to # <<>>
    /\ gol' = [gol EXCEPT ![g].to = Tail(@),
                          ![g].out = IF gol[g].sock = "open"
                                     THEN Append(@, Head(gol[g].to)) ELSE @]
    /\ UNCHANGED <<mutex, golems, minions, mini, pair>>

\* the writer goroutine: case <-g.done, ws.Close()
GolemWriterDone(g) ==
    /\ UNCHANGED idleHub
    /\ gol[g].wpc = "run"
    /\ gol[g].done > 0
    /\ gol' = [gol EXCEPT ![g].done = @ - 1, ![g].sock = "closed", ![g].wpc = "delete"]
    /\ UNCHANGED <<mutex, golems, minions, mini, pair>>

\* the writer goroutine: Lock; delete(golems, webstrate); Unlock; return
GolemWriterDelete(g) ==
    /\ UNCHANGED idleHub
    /\ gol[g].wpc = "delete"
    /\ ~mutex
    /\ golems' = [golems EXCEPT ![gol[g].ws] = Nil]
    /\ gol' = [gol EXCEPT ![g].wpc = "exit"]
    /\ UNCHANGED <<mutex, minions, mini, pair>>

(* ConnectHandler *)

\* the request on /minion/v1/connect/{webstrate}?type=t: Lock;
\* minions[webstrate][id] = &minion; golem := golems[webstrate]; Unlock.
\* The id is a fresh xid, here the name of the connection.
MinionRegister(m, w, t) ==
    /\ UNCHANGED idleHub
    /\ mini[m].pc = "idle"
    /\ ~mutex
    /\ minions' = [minions EXCEPT ![w] = @ \cup {m}]
    /\ mini' = [mini EXCEPT ![m].pc = "upgrade", ![m].ws = w, ![m].type = t,
                            ![m].golem = golems[w]]
    /\ UNCHANGED <<mutex, golems, gol, pair>>

\* upgrader.Upgrade; on its error log.Panic unwinds into the deferred delete
MinionUpgrade(m, ok) ==
    /\ UNCHANGED idleHub
    /\ mini[m].pc = "upgrade"
    /\ mini' = IF ok
               THEN [mini EXCEPT ![m].sock = "open",
                                 ![m].pc = IF mini[m].golem = Nil THEN "poll" ELSE "ready"]
               ELSE [mini EXCEPT ![m].pc = "deferred"]
    /\ UNCHANGED <<mutex, golems, minions, gol, pair>>

\* the poll loop, i < 100: Lock; golem = golems[webstrate]; Unlock; break if
\* found, else sleep 200 ms and i++
MinionPoll(m) ==
    /\ UNCHANGED idleHub
    /\ mini[m].pc = "poll"
    /\ mini[m].polls < MaxPolls
    /\ ~mutex
    /\ mini' = IF golems[mini[m].ws] # Nil
               THEN [mini EXCEPT ![m].golem = golems[mini[m].ws], ![m].pc = "ready"]
               ELSE [mini EXCEPT ![m].polls = @ + 1]
    /\ UNCHANGED <<mutex, golems, minions, gol, pair>>

\* json.Marshal of a ConnectEvent returns no error
MarshalError(e) == FALSE

\* `if notFound, err := json.Marshal(nf); err != nil { conn.WriteMessage }`
WritesNotFound(err) == err

\* the loop ended with golem == nil: the golem-not-found frame, conn.Close(),
\* return into the deferred delete
MinionNotFound(m) ==
    /\ UNCHANGED idleHub
    /\ mini[m].pc = "poll"
    /\ mini[m].polls = MaxPolls
    /\ LET nf == NewGolemNotFound(mini[m].ws) IN
         mini' = [mini EXCEPT
                    ![m].out = IF WritesNotFound(MarshalError(nf)) /\ mini[m].sock = "open"
                               THEN Append(@, EventMessage(nf)) ELSE @,
                    ![m].sock = "closed",
                    ![m].pc = "deferred"]
    /\ UNCHANGED <<mutex, golems, minions, gol, pair>>

\* go func(ws, m): the minion's writer goroutine starts
MinionStartWriter(m) ==
    /\ UNCHANGED idleHub
    /\ mini[m].pc = "ready"
    /\ mini' = [mini EXCEPT ![m].wpc = "run", ![m].pc = "announce"]
    /\ UNCHANGED <<mutex, golems, minions, gol, pair>>

\* the handler goes on to its read loop and tells the golem nothing
MinionAnnounce_Silent(m) ==
    /\ UNCHANGED idleHub
    /\ mini[m].pc = "announce"
    /\ mini' = [mini EXCEPT ![m].pc = "read"]
    /\ UNCHANGED <<mutex, golems, minions, gol, pair>>

\* golem.to <- minion-connected(id, type)
MinionAnnounce(m) ==
    /\ UNCHANGED idleHub
    /\ mini[m].pc = "announce"
    /\ Len(gol[mini[m].golem].to) < ChanCap
    /\ gol' = [gol EXCEPT ![mini[m].golem].to =
                 Append(@, EventMessage(NewMinionConnected(m, mini[m].type)))]
    /\ mini' = [mini EXCEPT ![m].pc = "read"]
    /\ UNCHANGED <<mutex, golems, minions, pair>>

\* the read loop: ReadMessage returns a frame; minion.from <- it
MinionRead(m) ==
    /\ UNCHANGED idleHub
    /\ mini[m].pc = "read"
    /\ mini[m].sock = "open"
    /\ mini[m].recv < MaxFrames
    /\ mini' = [mini EXCEPT ![m].recv = @ + 1, ![m].pc = "forward"]
    /\ UNCHANGED <<mutex, golems, minions, gol, pair>>

MinionForward(m) ==
    /\ UNCHANGED idleHub
    /\ mini[m].pc = "forward"
    /\ Len(mini[m].from) < ChanCap
    /\ mini' = [mini EXCEPT ![m].from = Append(@, Payload(m, mini[m].recv)),
                            ![m].pc = "read"]
    /\ UNCHANGED <<mutex, golems, minions, gol, pair>>

\* the read loop: ReadMessage fails
MinionReadError(m) ==
    /\ UNCHANGED idleHub
    /\ mini[m].pc = "read"
    /\ mini[m].sock # "open"
    /\ mini' = [mini EXCEPT ![m].pc = "tellgolem"]
    /\ UNCHANGED <<mutex, golems, minions, gol, pair>>

\* golem.to <- minion-disconnected(id)
MinionDisconnectedToGolem(m) ==
    /\ UNCHANGED idleHub
    /\ mini[m].pc = "tellgolem"
    /\ Len(gol[mini[m].golem].to) < ChanCap
    /\ gol' = [gol EXCEPT ![mini[m].golem].to =
                 Append(@, EventMessage(NewMinionDisconnected(m)))]
    /\ mini' = [mini EXCEPT ![m].pc = "tellfrom"]
    /\ UNCHANGED <<mutex, golems, minions, pair>>

\* minion.from <- minion-disconnected(id)
MinionDisconnectedToFrom(m) ==
    /\ UNCHANGED idleHub
    /\ mini[m].pc = "tellfrom"
    /\ Len(mini[m].from) < ChanCap
    /\ mini' = [mini EXCEPT ![m].from = Append(@, EventMessage(NewMinionDisconnected(m))),
                            ![m].pc = "signal"]
    /\ UNCHANGED <<mutex, golems, minions, gol, pair>>

\* minion.done <- true; break; return into the deferred delete
MinionSignalDone(m) ==
    /\ UNCHANGED idleHub
    /\ mini[m].pc = "signal"
    /\ mini[m].done < ChanCap
    /\ mini' = [mini EXCEPT ![m].done = @ + 1, ![m].pc = "deferred"]
    /\ UNCHANGED <<mutex, golems, minions, gol, pair>>

\* the deferred function: Lock; delete(minions[webstrate], id); Unlock
MinionDeferred(m) ==
    /\ UNCHANGED idleHub
    /\ mini[m].pc = "deferred"
    /\ ~mutex
    /\ minions' = [minions EXCEPT ![mini[m].ws] = @ \ {m}]
    /\ mini' = [mini EXCEPT ![m].pc = "done"]
    /\ UNCHANGED <<mutex, golems, gol, pair>>

\* the writer goroutine: case msg := <-m.to, ws.WriteMessage
MinionWrite(m) ==
    /\ UNCHANGED idleHub
    /\ mini[m].wpc = "run"
    /\ mini[m].to # <<>>
    /\ mini' = [mini EXCEPT ![m].to = Tail(@),
                            ![m].out = IF mini[m].sock = "open"
                                       THEN Append(@, Head(mini[m].to)) ELSE @]
    /\ UNCHANGED <<mutex, golems, minions, gol, pair>>

\* the writer goroutine: case <-golem.done, ws.Close(); the loop goes on
MinionWriterGolemDone(m) ==
    /\ UNCHANGED idleHub
    /\ mini[m].wpc = "run"
    /\ gol[mini[m].golem].done > 0
    /\ gol' = [gol EXCEPT ![mini[m].golem].done = @ - 1]
    /\ mini' = [mini EXCEPT ![m].sock = "closed"]
    /\ UNCHANGED <<mutex, golems, minions, pair>>

(* GolemMinionConnectHandler *)

\* the request on /golem/v1/connect-to/{webstrate}/{minion}: Lock; 404 unless
\* minions[webstrate][minionID] is registered; Unlock
PairResolve(p, w, id) ==
    /\ UNCHANGED idleHub
    /\ pair[p].pc = "idle"
    /\ ~mutex
    /\ pair' = [pair EXCEPT ![p].ws = w, ![p].minion = id,
                            ![p].pc = IF id \in minions[w] THEN "upgrade" ELSE "rejected404"]
    /\ UNCHANGED <<mutex, golems, minions, gol, mini>>

\* upgrader.Upgrade; on its error log.Panic ends the handler
PairUpgrade(p, ok) ==
    /\ UNCHANGED idleHub
    /\ pair[p].pc = "upgrade"
    /\ pair' = IF ok
               THEN [pair EXCEPT ![p].sock = "open", ![p].pc = "hello"]
               ELSE [pair EXCEPT ![p].pc = "done"]
    /\ UNCHANGED <<mutex, golems, minions, gol, mini>>

\* a pairing handler that goes to its read loop without the hello
PairHello_Silent(p) ==
    /\ UNCHANGED idleHub
    /\ pair[p].pc = "hello"
    /\ pair' = [pair EXCEPT ![p].wpc = "run", ![p].pc = "read"]
    /\ UNCHANGED <<mutex, golems, minions, gol, mini>>

\* minion.to <- golem-connected; the writer goroutine starts
PairHello(p) ==
    /\ UNCHANGED idleHub
    /\ pair[p].pc = "hello"
    /\ Len(mini[pair[p].minion].to) < ChanCap
    /\ mini' = [mini EXCEPT ![pair[p].minion].to = Append(@, EventMessage(NewGolemConnected))]
    /\ pair' = [pair EXCEPT ![p].wpc = "run", ![p].pc = "read"]
    /\ UNCHANGED <<mutex, golems, minions, gol>>

\* the read loop: ReadMessage returns a frame; minion.to <- it
PairRead(p) ==
    /\ UNCHANGED idleHub
    /\ pair[p].pc = "read"
    /\ pair[p].sock = "open"
    /\ pair[p].recv < MaxFrames
    /\ pair' = [pair EXCEPT ![p].recv = @ + 1, ![p].pc = "forward"]
    /\ UNCHANGED <<mutex, golems, minions, gol, mini>>

PairForward(p) ==
    /\ UNCHANGED idleHub
    /\ pair[p].pc = "forward"
    /\ Len(mini[pair[p].minion].to) < ChanCap
    /\ mini' = [mini EXCEPT ![pair[p].minion].to = Append(@, Payload(p, pair[p].recv))]
    /\ pair' = [pair EXCEPT ![p].pc = "read"]
    /\ UNCHANGED <<mutex, golems, minions, gol>>

\* the read loop: ReadMessage fails
PairReadError(p) ==
    /\ UNCHANGED idleHub
    /\ pair[p].pc = "read"
    /\ pair[p].sock # "open"
    /\ pair' = [pair EXCEPT ![p].pc = "bye"]
    /\ UNCHANGED <<mutex, golems, minions, gol, mini>>

\* minion.to <- golem-disconnected; break
PairBye(p) ==
    /\ UNCHANGED idleHub
    /\ pair[p].pc = "bye"
    /\ Len(mini[pair[p].minion].to) < ChanCap
    /\ mini' = [mini EXCEPT ![pair[p].minion].to = Append(@, EventMessage(NewGolemDisconnected))]
    /\ pair' = [pair EXCEPT ![p].pc = "done"]
    /\ UNCHANGED <<mutex, golems, minions, gol>>

\* the writer goroutine: case msg := <-minion.from, ws.WriteMessage
PairWrite(p) ==
    /\ UNCHANGED idleHub
    /\ pair[p].wpc = "run"
    /\ mini[pair[p].minion].from # <<>>
    /\ mini' = [mini EXCEPT ![pair[p].minion].from = Tail(@)]
    /\ pair' = [pair EXCEPT ![p].out = IF pair[p].sock = "open"
                                       THEN Append(@, Head(mini[pair[p].minion].from)) ELSE @]
    /\ UNCHANGED <<mutex, golems, minions, gol>>

\* the writer goroutine: case <-minion.done, ws.Close(), return
PairWriterDone(p) ==
    /\ UNCHANGED idleHub
    /\ pair[p].wpc = "run"
    /\ mini[pair[p].minion].done > 0
    /\ mini' = [mini EXCEPT ![pair[p].minion].done = @ - 1]
    /\ pair' = [pair EXCEPT ![p].sock = "closed", ![p].wpc = "exit"]
    /\ UNCHANGED <<mutex, golems, minions, gol>>

\* the golem control sockets alone: no minion session exists, golem.to stays
\* empty and the writers only ever take their g.done case
NextRegistry ==
    \/ \E g \in GolemConns : GolemSocketDrop(g)
    \/ \E g \in GolemConns, w \in HubWSIDs : GolemConnectLock(g, w)
    \/ \E g \in GolemConns : GolemConnectRegister(g)
    \/ \E g \in GolemConns, ok \in BOOLEAN : GolemUpgrade(g, ok)
    \/ \E g \in GolemConns : GolemReadError(g)
    \/ \E g \in GolemConns : GolemDeferred(g)
    \/ \E g \in GolemConns : GolemWriterDone(g)
    \/ \E g \in GolemConns : GolemWriterDelete(g)

SpecRegistry == InitAll /\ [][NextRegistry]_vars

\* one golem, one minion session and one connect-to socket
SessionGolems == {"g1"}
SessionMinions == {"m1"}
SessionPairs == {"p1"}

NextSession ==
    \/ \E g \in SessionGolems : GolemSocketDrop(g)
    \/ \E m \in SessionMinions : MinionSocketDrop(m)
    \/ \E p \in SessionPairs : PairSocketDrop(p)
    \/ \E g \in SessionGolems, w \in HubWSIDs : GolemConnectLock(g, w)
    \/ \E g \in SessionGolems : GolemConnectRegister(g)
    \/ \E g \in SessionGolems, ok \in BOOLEAN : GolemUpgrade(g, ok)
    \/ \E g \in SessionGolems : GolemReadError(g)
    \/ \E g \in SessionGolems : GolemDeferred(g)
    \/ \E g \in SessionGolems : GolemWrite(g)
    \/ \E g \in SessionGolems : GolemWriterDone(g)
    \/ \E g \in SessionGolems : GolemWriterDelete(g)
    \/ \E m \in SessionMinions, w \in HubWSIDs, t \in MinionTypes : MinionRegister(m, w, t)
    \/ \E m \in SessionMinions, ok \in BOOLEAN : MinionUpgrade(m, ok)
    \/ \E m \in SessionMinions : MinionPoll(m)
    \/ \E m \in SessionMinions : MinionNotFound(m)
    \/ \E m \in SessionMinions : MinionStartWriter(m)
    \/ \E m \in SessionMinions : MinionAnnounce(m)
    \/ \E m \in SessionMinions : MinionRead(m)
    \/ \E m \in SessionMinions : MinionForward(m)
    \/ \E m \in SessionMinions : MinionReadError(m)
    \/ \E m \in SessionMinions : MinionDisconnectedToGolem(m)
    \/ \E m \in SessionMinions : MinionDisconnectedToFrom(m)
    \/ \E m \in SessionMinions : MinionSignalDone(m)
    \/ \E m \in SessionMinions : MinionDeferred(m)
    \/ \E m \in SessionMinions : MinionWrite(m)
    \/ \E m \in SessionMinions : MinionWriterGolemDone(m)
    \/ \E p \in SessionPairs, w \in HubWSIDs, id \in MinionConns : PairResolve(p, w, id)
    \/ \E p \in SessionPairs, ok \in BOOLEAN : PairUpgrade(p, ok)
    \/ \E p \in SessionPairs : PairHello(p)
    \/ \E p \in SessionPairs : PairRead(p)
    \/ \E p \in SessionPairs : PairForward(p)
    \/ \E p \in SessionPairs : PairReadError(p)
    \/ \E p \in SessionPairs : PairBye(p)
    \/ \E p \in SessionPairs : PairWrite(p)
    \/ \E p \in SessionPairs : PairWriterDone(p)

SpecSession == InitAll /\ [][NextSession]_vars

(***************************************************************************)
(* C1: for every webstrate id and any interleaving of golem connect        *)
(* requests, golems[wsid] holds at most one golem socket: a registration   *)
(* never displaces a registered golem, and a connect request that finds an *)
(* entry is answered 409 before any upgrade and leaves the registry as it  *)
(* was.                                                                    *)
(***************************************************************************)
C1_OneGolemPerWSID ==
    [][ \A w \in HubWSIDs :
          /\ (golems'[w] # golems[w] /\ golems'[w] # Nil) => golems[w] = Nil
          /\ \A g \in GolemConns :
                (gol[g].pc = "check" /\ gol[g].ws = w /\ golems[w] # Nil /\ gol'[g] # gol[g])
                    => /\ gol'[g].pc = "rejected409"
                       /\ gol'[g].sock = "none"
                       /\ golems' = golems ]_vars

\* a second golem was answered 409 while the first is registered and connected
C1_Witness ==
    \E g, h \in GolemConns :
        /\ g # h
        /\ gol[h].pc = "rejected409"
        /\ golems[gol[h].ws] = g
        /\ gol[g].pc = "read"

\* the frames of seq that are the event ev of session id
EventIndexes(seq, ev, id) ==
    { i \in DOMAIN seq : /\ Len(seq[i].Content) >= 2
                         /\ seq[i].Content[1] = <<"Event", ev>>
                         /\ seq[i].Content[2] = <<"ID", id>> }

\* the frames of seq that the peer sent on socket sock
PayloadIndexes(seq, sock) ==
    { i \in DOMAIN seq : seq[i].Content[1] = <<"payload", sock>> }

\* the minion sessions that have passed the announcement to their golem
Attached == { m \in MinionConns :
                mini[m].pc \in {"read", "forward", "tellgolem", "tellfrom",
                                "signal", "deferred", "done"} /\ mini[m].golem # Nil }

\* the minion-disconnected events for m that the golem has been sent, on its
\* control socket and on its connect-to sockets
DisconnectedSeen(m) ==
    Cardinality(EventIndexes(gol[mini[m].golem].out, "minion-disconnected", m))
    + Cardinality({ p \in PairConns :
                      EventIndexes(pair[p].out, "minion-disconnected", m) # {} })

C10_NotFoundFrameSent ==
    \A m \in MinionConns :
        (mini[m].polls = MaxPolls /\ mini[m].golem = Nil /\ mini[m].pc \in {"deferred", "done"})
            => /\ \E i \in DOMAIN mini[m].out :
                     mini[m].out[i] = EventMessage(NewGolemNotFound(mini[m].ws))
               /\ mini[m].sock = "closed"
               /\ (mini[m].pc = "done" => m \notin minions[mini[m].ws])
               /\ \A g \in GolemConns :
                     EventIndexes(gol[g].to \o gol[g].out, "minion-connected", m) = {}

(***************************************************************************)
(* Tokens (package token over jwt-go).  A token string is its header's     *)
(* alg, who produced its signature, and its claims.                        *)
(***************************************************************************)
\* time.Now().Unix() when the claims are validated
Now == 10

\* the token strings requests carry.  "priv" signs with the private key of
\* the configured public key, "otherpriv" with another RSA key, "pubsecret"
\* uses the public key's PEM as an HMAC secret, "nobody" leaves no signature.
ClaimsA == [sub |-> "a", jti |-> "j1", crd |-> 1, exp |-> 12]
ClaimsB == [sub |-> "b", jti |-> "j2", crd |-> 1, exp |-> 12]
TokenStrings ==
    { [wellformed |-> TRUE, alg |-> "RS512", signer |-> "priv", claims |-> ClaimsA],
      [wellformed |-> TRUE, alg |-> "RS512", signer |-> "priv", claims |-> ClaimsB],
      [wellformed |-> TRUE, alg |-> "RS512", signer |-> "priv",
       claims |-> [ClaimsA EXCEPT !.exp = 7]],
      [wellformed |-> TRUE, alg |-> "RS256", signer |-> "otherpriv", claims |-> ClaimsA],
      [wellformed |-> TRUE, alg |-> "HS256", signer |-> "pubsecret", claims |-> ClaimsA],
      [wellformed |-> TRUE, alg |-> "PS256", signer |-> "priv", claims |-> ClaimsA],
      [wellformed |-> TRUE, alg |-> "none", signer |-> "nobody", claims |-> ClaimsA],
      NotAToken }

\* jwt.GetSigningMethod(alg): the type of the method registered under alg
SigningMethod(alg) ==
    CASE alg \in {"RS256", "RS384", "RS512"} -> "SigningMethodRSA"
      [] alg \in {"PS256", "PS384", "PS512"} -> "SigningMethodRSAPSS"
      [] alg \in {"HS256", "HS384", "HS512"} -> "SigningMethodHMAC"
      [] alg \in {"ES256", "ES384", "ES512"} -> "SigningMethodECDSA"
      [] alg = "none" -> "signingMethodNone"
      [] OTHER -> "unavailable"

\* a key function that hands the public key to any method
Keyfunc_AnyMethod(token) == [err |-> FALSE, key |-> "pubKey"]

\* Validate's key function: "Invalid token" unless t.Method is a
\* *jwt.SigningMethodRSA, else tm.pubKey
Keyfunc(token) ==
    IF SigningMethod(token.alg) # "SigningMethodRSA"
    THEN [err |-> TRUE, key |-> "nokey"]
    ELSE [err |-> FALSE, key |-> "pubKey"]

\* Method.Verify(signingString, signature, key) with key an *rsa.PublicKey:
\* the RSA methods check the signature, the others refuse the key's type
Verify(token, key) ==
    /\ key = "pubKey"
    /\ SigningMethod(token.alg) \in {"SigningMethodRSA", "SigningMethodRSAPSS"}
    /\ token.signer = "priv"

\* MapClaims.Valid(): the token has not expired
ClaimsValid(claims) == Now <= claims.exp

\* jwt.ParseWithClaims(token, jwt.MapClaims{}, keyfunc): err and token.Valid
ParseWithClaims(token) ==
    LET k == Keyfunc(token)
        err == \/ ~token.wellformed
               \/ SigningMethod(token.alg) = "unavailable"
               \/ k.err
               \/ ~ClaimsValid(token.claims)
               \/ ~Verify(token, k.key)
    IN  [err |-> err, Valid |-> ~err]

\* Manager.Validate: the token if err == nil && jwtToken.Valid, else nil
Validate(token) ==
    LET p == ParseWithClaims(token) IN
    IF ~p.err /\ p.Valid
    THEN [ok |-> TRUE, claims |-> token.claims]
    ELSE [ok |-> FALSE, claims |-> NotAToken.claims]

\* the Authorization headers and token query parameters of requests
NoHeader == [scheme |-> "", token |-> NotAToken]
Bearer(t) == [header |-> [scheme |-> "Bearer", token |-> t], query |-> NotAToken]
TokenA == [wellformed |-> TRUE, alg |-> "RS512", signer |-> "priv", claims |-> ClaimsA]
TokenB == [wellformed |-> TRUE, alg |-> "RS512", signer |-> "priv", claims |-> ClaimsB]
OwnerAuths == { Bearer(TokenA), [header |-> NoHeader, query |-> TokenB] }
RequestAuths ==
    { Bearer(t) : t \in TokenStrings }
    \cup OwnerAuths
    \cup { [header |-> [scheme |-> "Basic", token |-> TokenA], query |-> NotAToken],
           [header |-> [scheme |-> "bearer", token |-> NotAToken], query |-> TokenA] }

\* tokenFromHeader: the header's token if it starts with "bearer"
tokenFromHeader(auth) ==
    IF auth.header.scheme \in {"Bearer", "bearer"}
    THEN [token |-> auth.header.token, ok |-> TRUE]
    ELSE [token |-> NotAToken, ok |-> FALSE]

\* tokenFromQueryParam, "" when the parameter is absent
tokenFromQueryParam(auth) == auth.query

\* ValidatedHandler: the token string it validates
RequestToken(auth) ==
    IF tokenFromHeader(auth).ok THEN tokenFromHeader(auth).token
    ELSE tokenFromQueryParam(auth)

(***************************************************************************)
(* The daemon API (package daemon behind token.ValidatedHandler): spawn,   *)
(* list, kill and attach requests over the engine's containers.            *)
(***************************************************************************)
\* the "name" form values of spawn requests and the names kill requests give
ApiNames == { <<"s">>, <<"t">> }
KillNames == { Uname(<<"s">>, "j1"), Uname(<<"t">>, "j1"), Uname(<<"s">>, "j2") }

\* a request is at rest before it arrives and after it is answered
ApiRest == {"idle", "resp200", "resp401", "resp402", "resp500", "attached", "closed"}

\* the containers the engine holds, stopped ones included
EngContainers == { c \in ContainerIDs : eng[c].state \in {"running", "exited"} }

\* the predicates of the container facade, as the containers they match
HasName(name) == { c \in ContainerIDs : eng[c].name = name }
HasLabelSubject(value) == { c \in ContainerIDs : eng[c].subject = value }
HasID(id) == { c \in ContainerIDs : c = id }

\* container.List(client, matches, all)
ListContainers(matching, all) ==
    { c \in matching : eng[c].state \in (IF all THEN {"running", "exited"} ELSE {"running"}) }

\* a wrapper that invokes the handler whatever Validate returned
ApiRequest_NoValidation(a, op, auth, name, wipe) ==
    /\ UNCHANGED idleApi
    /\ apc[a] \in ApiRest
    /\ LET token == RequestToken(auth) IN
         /\ areq' = [areq EXCEPT ![a] = [op |-> op, token |-> token,
                                         t |-> [ok |-> TRUE, claims |-> token.claims],
                                         name |-> name, wipe |-> wipe]]
         /\ apc' = [apc EXCEPT ![a] = op]
    /\ afound' = [afound EXCEPT ![a] = {}]
    /\ aresp' = [aresp EXCEPT ![a] = {}]
    /\ UNCHANGED <<db, eng>>

\* token.ValidatedHandler: the token from the header or else the query,
\* m.Validate(token), 401 on an error or a nil token, else handler(w, r, t)
ApiRequest(a, op, auth, name, wipe) ==
    /\ UNCHANGED idleApi
    /\ apc[a] \in ApiRest
    /\ LET token == RequestToken(auth)
           t == Validate(token)
       IN  /\ areq' = [areq EXCEPT ![a] = [op |-> op, token |-> token, t |-> t,
                                           name |-> name, wipe |-> wipe]]
           /\ apc' = [apc EXCEPT ![a] = IF t.ok THEN op ELSE "resp401"]
    /\ afound' = [afound EXCEPT ![a] = {}]
    /\ aresp' = [aresp EXCEPT ![a] = {}]
    /\ UNCHANGED <<db, eng>>

\* SpawnHandler and Spawn: NewMeter, 402 without credits, then RunDaemonized
\* of a container named uname with the labels subject, token and tokenid;
\* the engine refuses a name that a container already has
ApiSpawn(a, c) ==
    /\ UNCHANGED idleApi
    /\ apc[a] = "spawn"
    /\ eng[c].state = "none"
    /\ LET claims == areq[a].t.claims
           uname == Uname(areq[a].name, claims.jti)
           db2 == NewMeter(db, claims.sub, claims.jti, claims.exp, claims.crd)
       IN  /\ db' = db2
           /\ IF NoFunds(Credits(db2, claims.sub))
              THEN /\ apc' = [apc EXCEPT ![a] = "resp402"]
                   /\ UNCHANGED eng
              ELSE IF EngContainers \cap HasName(uname) # {}
              THEN /\ apc' = [apc EXCEPT ![a] = "resp500"]
                   /\ UNCHANGED eng
              ELSE /\ apc' = [apc EXCEPT ![a] = "resp200"]
                   /\ eng' = [eng EXCEPT ![c] = [state |-> "running", name |-> uname,
                                                 subject |-> claims.sub]]
    /\ UNCHANGED <<areq, afound, aresp>>

\* the daemon's process ends
ApiContainerExit(c) ==
    /\ UNCHANGED idleApi
    /\ eng[c].state = "running"
    /\ eng' = [eng EXCEPT ![c].state = "exited"]
    /\ UNCHANGED <<db, apc, areq, afound, aresp>>

\* the supervisor or the metering task of the daemon force-removes it
ApiContainerReap(c) ==
    /\ UNCHANGED idleApi
    /\ eng[c].state \in {"running", "exited"}
    /\ eng' = [eng EXCEPT ![c].state = "removed"]
    /\ UNCHANGED <<db, apc, areq, afound, aresp>>

\* a listing that leaves the subject label out
ApiList_Everyone(a) ==
    /\ UNCHANGED idleApi
    /\ apc[a] = "list"
    /\ aresp' = [aresp EXCEPT ![a] = ListContainers(ContainerIDs, TRUE)]
    /\ apc' = [apc EXCEPT ![a] = "resp200"]
    /\ UNCHANGED <<db, eng, areq, afound>>

\* ListHandler and List: container.List(nil, WithLabel("subject", sub), true)
ApiList(a) ==
    /\ UNCHANGED idleApi
    /\ apc[a] = "list"
    /\ aresp' = [aresp EXCEPT ![a] =
                   ListContainers(HasLabelSubject(areq[a].t.claims.sub), TRUE)]
    /\ apc' = [apc EXCEPT ![a] = "resp200"]
    /\ UNCHANGED <<db, eng, areq, afound>>

\* AttachHandler and Attach: the first container List returns for the
\* subject label, whatever the name; the socket is closed when there is none
ApiAttach(a) ==
    /\ UNCHANGED idleApi
    /\ apc[a] = "attach"
    /\ LET cs == ListContainers(HasLabelSubject(areq[a].t.claims.sub), TRUE) IN
         IF cs = {}
         THEN /\ apc' = [apc EXCEPT ![a] = "closed"]
              /\ UNCHANGED aresp
         ELSE /\ apc' = [apc EXCEPT ![a] = "attached"]
              /\ \E c \in cs : aresp' = [aresp EXCEPT ![a] = {c}]
    /\ UNCHANGED <<db, eng, areq, afound>>

\* a kill that looks the container up by its name alone
ApiKillList_NameOnly(a) ==
    /\ UNCHANGED idleApi
    /\ apc[a] = "kill"
    /\ LET containers == ListContainers(HasName(areq[a].name), FALSE) IN
         /\ afound' = [afound EXCEPT ![a] = containers]
         /\ apc' = [apc EXCEPT ![a] =
                      IF Cardinality(containers) # 1 THEN "resp500" ELSE "fkill"]
    /\ UNCHANGED <<db, eng, areq, aresp>>

\* KillHandler and Kill: container.List(nil, And(WithName(name),
\* WithLabel("subject", subject)), false); an error unless one matches
ApiKillList(a) ==
    /\ UNCHANGED idleApi
    /\ apc[a] = "kill"
    /\ LET containers == ListContainers(HasName(areq[a].name)
                                        \cap HasLabelSubject(areq[a].t.claims.sub), FALSE)
       IN  /\ afound' = [afound EXCEPT ![a] = containers]
           /\ apc' = [apc EXCEPT ![a] =
                        IF Cardinality(containers) # 1 THEN "resp500" ELSE "fkill"]
    /\ UNCHANGED <<db, eng, areq, aresp>>

\* Kill: container.Kill(WithID(containers[0].ID), wipe, wipe), which lists
\* again, stopped containers included when forceStopped, fails unless one
\* matches, and force-removes it
ApiKillRemove(a) ==
    /\ UNCHANGED idleApi
    /\ apc[a] = "fkill"
    /\ LET id == CHOOSE c \in afound[a] : TRUE
           containers == ListContainers(HasID(id), areq[a].wipe)
       IN  IF Cardinality(containers) # 1
           THEN /\ apc' = [apc EXCEPT ![a] = "resp500"]
                /\ UNCHANGED eng
           ELSE /\ apc' = [apc EXCEPT ![a] = "resp200"]
                /\ eng' = [c \in ContainerIDs |->
                             IF c \in containers THEN [eng[c] EXCEPT !.state = "removed"]
                             ELSE eng[c]]
    /\ UNCHANGED <<db, areq, afound, aresp>>

\* the requests clients make
ApiCalls ==
    { [op |-> "spawn", auth |-> Bearer(TokenA), name |-> n, wipe |-> FALSE] : n \in ApiNames }
    \cup { [op |-> "spawn", auth |-> [header |-> NoHeader, query |-> TokenB],
            name |-> <<"s">>, wipe |-> FALSE] }
    \cup { [op |-> "kill", auth |-> x, name |-> n, wipe |-> w] :
              x \in OwnerAuths, n \in KillNames, w \in BOOLEAN }
    \cup { [op |-> "list", auth |-> x, name |-> <<>>, wipe |-> FALSE] : x \in OwnerAuths }
    \cup { [op |-> "attach", auth |-> x, name |-> n, wipe |-> FALSE] :
              x \in OwnerAuths, n \in {<<"s">>, Uname(<<"s">>, "j1")} }
    \cup { [op |-> "kill", auth |-> x, name |-> Uname(<<"s">>, "j1"), wipe |-> TRUE] :
              x \in RequestAuths }
    \cup { [op |-> "list", auth |-> x, name |-> <<>>, wipe |-> FALSE] : x \in RequestAuths }

NextApi ==
    \/ \E a \in ApiRequests, call \in ApiCalls :
          ApiRequest(a, call.op, call.auth, call.name, call.wipe)
    \/ \E a \in ApiRequests, c \in ContainerIDs : ApiSpawn(a, c)
    \/ \E c \in ContainerIDs : ApiContainerExit(c)
    \/ \E c \in ContainerIDs : ApiContainerReap(c)
    \/ \E a \in ApiRequests : ApiList(a)
    \/ \E a \in ApiRequests : ApiAttach(a)
    \/ \E a \in ApiRequests : ApiKillList(a)
    \/ \E a \in ApiRequests : ApiKillRemove(a)

SpecApi == InitAll /\ [][NextApi]_vars

(***************************************************************************)
(* C11: a daemon kill(token, name) removes a container only if it has the  *)
(* given name and its subject label is the token's sub claim; when no      *)
(* running container has that name and label the call fails and removes    *)
(* nothing, in particular no container of another subject.                 *)
(***************************************************************************)
C11_KillOnlyOwnNamed ==
    [][ \A a \in ApiRequests :
          (areq[a].op = "kill" /\ apc[a] \in {"kill", "fkill"} /\ apc'[a] # apc[a]) =>
             /\ \A c \in ContainerIDs :
                   eng'[c] # eng[c] =>
                      /\ eng[c].name = areq[a].name
                      /\ eng[c].subject = areq[a].t.claims.sub
                      /\ apc'[a] = "resp200"
             /\ (apc[a] = "kill" /\ ~\E c \in ContainerIDs :
                                        /\ eng[c].state = "running"
                                        /\ eng[c].name = areq[a].name
                                        /\ eng[c].subject = areq[a].t.claims.sub)
                   => apc'[a] = "resp500" /\ eng' = eng ]_vars

\* a kill by another subject of a running container, by its name, has failed
\* and the container still runs, after a container of its owner was removed
C11_Witness ==
    \E a \in ApiRequests, c, k \in ContainerIDs :
        /\ areq[a].op = "kill" /\ apc[a] = "resp500" /\ areq[a].t.ok
        /\ eng[c].state = "running"
        /\ eng[c].name = areq[a].name
        /\ eng[c].subject # areq[a].t.claims.sub
        /\ eng[k].state = "removed" /\ eng[k].subject = eng[c].subject

(***************************************************************************)
(* C12: a handler wrapped by ValidatedHandler runs only with a token that  *)
(* Validate accepted; a request whose token fails validation is answered   *)
(* 401 and changes neither the containers nor the ledger, and every change *)
(* a request makes to them is made by a handler holding an accepted token. *)
(***************************************************************************)
C12_HandlerOnlyWithValidToken ==
    [][ /\ \A a \in ApiRequests :
             /\ (apc[a] \in ApiRest /\ <<apc'[a], areq'[a]>> # <<apc[a], areq[a]>>) =>
                   IF Validate(areq'[a].token).ok
                   THEN apc'[a] = areq'[a].op /\ areq'[a].t.claims = areq'[a].token.claims
                   ELSE apc'[a] = "resp401" /\ eng' = eng /\ db' = db
             /\ apc[a] \notin ApiRest => Validate(areq[a].token).ok
             /\ (aresp'[a] # aresp[a] /\ aresp'[a] # {}) => Validate(areq[a].token).ok
        /\ (apc' # apc /\ (eng' # eng \/ db' # db)) =>
              \E a \in ApiRequests :
                 apc[a] \notin ApiRest /\ apc'[a] # apc[a] /\ Validate(areq[a].token).ok
      ]_vars

\* a kill carrying an HMAC token with subject a's claims was answered 401 and
\* the container it names still runs
C12_Witness ==
    \E a \in ApiRequests, c \in ContainerIDs :
        /\ apc[a] = "resp401" /\ areq[a].op = "kill"
        /\ areq[a].token.alg = "HS256" /\ areq[a].token.claims.sub = "a"
        /\ eng[c].state = "running" /\ eng[c].name = areq[a].name /\ eng[c].subject = "a"

(***************************************************************************)
(* C13: Validate returns the token if and only if its signing method is of *)
(* the RSA family (jwt.SigningMethodRSA: RS256, RS384, RS512), its         *)
(* signature verifies against the configured public key and its claims are *)
(* valid, and then the token returned carries the claims of the string;    *)
(* a token of any other algorithm is rejected whatever its signature.      *)
(***************************************************************************)
C13_ValidateOnlyRSA ==
    \A a \in ApiRequests :
       apc[a] # "idle" =>
          LET token == areq[a].token IN
          /\ areq[a].t.ok <=> /\ token.wellformed
                              /\ token.alg \in {"RS256", "RS384", "RS512"}
                              /\ token.signer = "priv"
                              /\ Now <= token.claims.exp
          /\ areq[a].t.ok => areq[a].t.claims = token.claims
          /\ token.alg \notin {"RS256", "RS384", "RS512"} =>
                ~areq[a].t.ok /\ apc[a] = "resp401"

\* an RSA-PSS token signed with the manager's own private key was rejected
C13_Witness ==
    \E a \in ApiRequests :
        /\ apc[a] = "resp401"
        /\ areq[a].token.alg = "PS256" /\ areq[a].token.signer = "priv"
        /\ Now <= areq[a].token.claims.exp
        /\ ~areq[a].t.ok

RunLambdaErr(res) == res \in {"pullfail", "createfail", "startfail", "deadline"}

\* Spawn returns a non-nil error: TempDir, LoadFiles or RunLambda failed
SpawnErr(res) == res \in {"tmpfail", "loadfail"} \/ RunLambdaErr(res)

\* SpawnHandler: http.Error(w, err.Error(), 500) on Spawn's error, else the
\* result with the default status
SpawnHandlerStatus(res) == IF SpawnErr(res) THEN "500" ELSE "200"

(***************************************************************************)
(* C17: a lambda whose container still runs when the 60 s deadline expires *)
(* leaves the wait with an error, RunLambda returns that error, its        *)
(* container is force-removed and the spawn endpoint answers non-200.      *)
(***************************************************************************)
C17_DeadlineFailsAndRemoves ==
    /\ [][ \A l \in Lambdas :
             (lpc[l] = "wait" /\ lcont[l] = "running" /\ lpc'[l] # "wait") =>
                 lres'[l] = "deadline" /\ lpc'[l] = "remove" ]_vars
    /\ [](\A l \in Lambdas :
             (lpc[l] = "returned" /\ lres[l] = "deadline") =>
                /\ RunLambdaErr(lres[l])
                /\ lcont[l] = "removed"
                /\ SpawnHandlerStatus(lres[l]) # "200")

\* one lambda ran into the deadline and has returned while another exited
\* in time and was answered 200
C17_Witness ==
    \E l, k \in Lambdas :
        /\ lpc[l] = "returned" /\ lres[l] = "deadline" /\ lcont[l] = "removed"
        /\ lpc[k] = "returned" /\ lres[k] = "exited" /\ SpawnHandlerStatus(lres[k]) = "200"

(***************************************************************************)
(* The two kills side by side: the golem controller's Kill(webstrateID)    *)
(* and the container facade's Kill, which the metering task of a daemon    *)
(* calls, with one daemon and two controller requests on one webstrate.    *)
(***************************************************************************)
KillRequests == {"r1", "r2"}
KillDaemons == {"d1"}

NextKill ==
    \/ \E r \in KillRequests, op \in {"spawn", "kill"} : CtlRequest(r, op, "w1")
    \/ \E r \in KillRequests, ok \in BOOLEAN : GolemPrepare(r, ok)
    \/ \E r \in KillRequests : GolemCreate(r)
    \/ \E r \in KillRequests, ok \in BOOLEAN : GolemStart(r, ok)
    \/ \E r \in KillRequests : GolemExit(r)
    \/ \E r \in KillRequests : GolemKillList(r)
    \/ \E r \in KillRequests : GolemKillKill(r)
    \/ \E r \in KillRequests : GolemKillRemove(r)
    \/ \E d \in KillDaemons, tok \in DaemonTokens, name \in DaemonNames :
          SpawnTopUp(d, tok, name)
    \/ \E d \in KillDaemons : SpawnCheckCredits(d)
    \/ \E d \in KillDaemons, outcome \in {"ok", "pullfail", "startfail"} :
          SpawnRun(d, outcome)
    \/ \E d \in KillDaemons : ContainerExit(d)
    \/ \E d \in KillDaemons : SupervisorPoll(d)
    \/ \E d \in KillDaemons : SupervisorRemove(d)
    \/ \E d \in KillDaemons, elapsed \in TickNanos : MeterTick(d, elapsed)
    \/ \E d \in KillDaemons : MeterKill(d)
    \/ \E d \in KillDaemons : MeterDone(d)
    \/ \E d \in KillDaemons : MeterNotify(d)

SpecKill == InitAll /\ [][NextKill]_vars

C19_RestartLeavesOne ==
    /\ [][ \A r \in CtlRequests :
             /\ (cpc[r] = "start" /\ cpc'[r] = "ok") =>
                   /\ { e \in CtlRequests :
                          /\ gcont'[e].state \in {"created", "running", "exited"}
                          /\ gcont'[e].ws = creq[r].ws } = {r}
                   /\ creq[r].op = "restart" =>
                         \A e \in cfound[r] : gcont'[e].state = "removed"
             /\ (creq[r].op = "restart" /\ cpc[r] \in {"list", "kill", "remove"}
                   /\ cpc'[r] \in {"pull", "create", "start", "ok"}) =>
                   /\ cpc[r] = "remove" /\ cpc'[r] = "pull"
                   /\ \A e \in cfound[r] :
                         gcont[e].state # "removed" /\ gcont'[e].state = "removed"
             /\ cpc[r] = "failed" => cpc'[r] = "failed" /\ gcont'[r] = gcont[r] ]_vars
    /\ [](\A r \in CtlRequests :
             (creq[r].op = "restart"
                /\ (cpc[r] \in {"pull", "create", "start", "ok"} \/ gcont[r].state # "none")) =>
                /\ Cardinality(cfound[r]) = 1
                /\ \A e \in cfound[r] : gcont[e].state = "removed" /\ gcont[e].ws = creq[r].ws)

\* a restart killed and removed the webstrate's golem and started a new one
\* while another restart, finding no running golem, failed without spawning
C19_Witness ==
    \E r, e, f \in CtlRequests :
        /\ creq[r] = [op |-> "restart", ws |-> "w1"] /\ cpc[r] = "ok"
        /\ cfound[r] = {e} /\ gcont[e] = [state |-> "removed", ws |-> "w1"]
        /\ gcont[r] = [state |-> "running", ws |-> "w1"]
        /\ creq[f].op = "restart" /\ cpc[f] = "failed" /\ cfound[f] = {}
        /\ gcont[f].state = "none"

(***************************************************************************)
(* C14: when the value a golem sent on golem.done after its read failed is *)
(* received, every minion session attached to that golem, its writer       *)
(* running, has its socket closed: no such session is left with an open    *)
(* socket once the value is gone from the channel.                         *)
(***************************************************************************)
C14_GolemDoneClosesMinions ==
    [][ \A g \in GolemConns :
          gol'[g].done < gol[g].done =>
             \A m \in Attached :
                (mini[m].golem = g /\ mini[m].wpc = "run") => mini'[m].sock # "open"
      ]_vars

\* the frames of seq that are the event ev, which carries no session id
NamedEventIndexes(seq, ev) ==
    { i \in DOMAIN seq : seq[i].Content = <<<<"Event", ev>>>> }

(***************************************************************************)
(* C16: on a connect-to socket the handler enqueues golem-connected on the *)
(* session's to queue when it leaves the upgrade, before it reads any      *)
(* frame from the golem; every frame it reads is enqueued next, in the     *)
(* read loop; when the read fails it enqueues exactly one                  *)
(* golem-disconnected and ends, so that event follows all the frames of    *)
(* that socket.  On the queue and the minion's socket the events and the   *)
(* frames of the connect-to socket appear in that order.                   *)
(***************************************************************************)
C16_HelloFramesBye ==
    /\ [][
        /\ \A p \in PairConns :
             LET m == pair[p].minion IN
             /\ (pair[p].pc = "hello" /\ pair'[p].pc # "hello") =>
                   /\ pair'[p].pc = "read" /\ pair[p].recv = 0
                   /\ mini'[m].to = Append(mini[m].to, EventMessage(NewGolemConnected))
             /\ (pair[p].pc = "forward" /\ pair'[p].pc # "forward") =>
                   /\ pair'[p].pc = "read"
                   /\ mini'[m].to = Append(mini[m].to, Payload(p, pair[p].recv))
             /\ (pair[p].pc = "bye" /\ pair'[p].pc # "bye") =>
                   /\ pair'[p].pc = "done"
                   /\ mini'[m].to = Append(mini[m].to, EventMessage(NewGolemDisconnected))
             /\ (pair[p].pc = "read" /\ pair'[p].pc # "read") =>
                   /\ mini'[m].to = mini[m].to
                   /\ pair'[p].pc = IF pair[p].sock = "open" THEN "forward" ELSE "bye"
             /\ pair[p].pc \in {"done", "rejected404"} => pair'[p].pc = pair[p].pc
        /\ \A n \in MinionConns :
             Len(mini'[n].to) > Len(mini[n].to) =>
                \E q \in PairConns :
                   /\ pair[q].pc \in {"hello", "forward", "bye"}
                   /\ pair[q].minion = n /\ pair'[q].pc # pair[q].pc ]_vars
    /\ [](\A m \in MinionConns :
            LET seq == mini[m].out \o mini[m].to
                con == NamedEventIndexes(seq, "golem-connected")
                dis == NamedEventIndexes(seq, "golem-disconnected")
            IN  \A p \in SessionPairs :
                   /\ pair[p].pc \in {"idle", "upgrade", "hello"} =>
                         pair[p].recv = 0 /\ PayloadIndexes(seq, p) = {}
                   /\ Cardinality(con) <= 1 /\ Cardinality(dis) <= 1
                   /\ \A i \in con : \A j \in PayloadIndexes(seq, p) \cup dis : i < j
                   /\ \A j \in dis : \A i \in PayloadIndexes(seq, p) : i < j
                   /\ dis # {} => pair[p].pc = "done")

\* the minion's socket was written golem-connected, the golem's frame and
\* golem-disconnected, in that order
C16_Witness ==
    \E m \in MinionConns, p \in PairConns :
        /\ pair[p].minion = m /\ pair[p].pc = "done"
        /\ mini[m].out = <<EventMessage(NewGolemConnected), Payload(p, 1),
                           EventMessage(NewGolemDisconnected)>>

\* the frames of seq that the peer sent on socket sock, in the order of seq
FramesOf(seq, sock) == SelectSeq(seq, LAMBDA x : x.Content[1] = <<"payload", sock>>)

\* fs is the first frames read from socket sock, each once and in the order
\* of their arrival
InArrivalOrder(fs, sock) == \A i \in 1..Len(fs) : fs[i] = Payload(sock, i)

\* the number of frames the handler read from a socket and has passed on
Forwarded(pc, recv) == IF pc = "forward" THEN recv - 1 ELSE recv

(***************************************************************************)
(* C15: the frames read from a minion's socket are written to its paired   *)
(* connect-to socket in arrival order, none twice and, while that socket   *)
(* is open, none lost: when the writer of the open connect-to socket ends, *)
(* every frame read from the minion has been written to it.  The frames    *)
(* read from the connect-to socket are written to the minion's socket in   *)
(* arrival order, none twice and, while that socket is open, none lost.    *)
(***************************************************************************)
C15_FramesInOrderNoLoss ==
    /\ [](\A p \in PairConns :
            pair[p].pc \in {"read", "forward", "bye", "done"} /\ pair[p].wpc # "none" =>
               LET m == pair[p].minion IN
               /\ InArrivalOrder(FramesOf(pair[p].out \o mini[m].from, m), m)
               /\ InArrivalOrder(FramesOf(mini[m].out \o mini[m].to, p), p)
               /\ mini[m].sock = "open" =>
                     Len(FramesOf(mini[m].out \o mini[m].to, p))
                        = Forwarded(pair[p].pc, pair[p].recv))
    /\ [][ \A p \in PairConns :
             (pair[p].wpc = "run" /\ pair'[p].wpc = "exit" /\ pair[p].sock = "open") =>
                Len(FramesOf(pair'[p].out, pair[p].minion))
                   = Forwarded(mini[pair[p].minion].pc, mini[pair[p].minion].recv) ]_vars

(***************************************************************************)
(* The container names of daemons: Spawn composes uname from the "name"    *)
(* form value and the token's jti claim.                                   *)
(***************************************************************************)
\* the number of spawns whose names are compared
MaxSpawned == 2

\* the "name" form values: any string, hyphens and digits included
SpawnNames == { <<>>, <<"a">>, <<"a", "-">>, <<"a", "-", "0">>, <<"a", "-", "0", "0">>,
                <<"0">>, <<"-">> }

\* Spawn: uname := fmt.Sprintf("%s-%v", name, claims["jti"])
SpawnName(name, jti) ==
    /\ UNCHANGED idleNames
    /\ Cardinality(spawned) < MaxSpawned
    /\ spawned' = spawned \cup {[name |-> name, jti |-> jti, uname |-> Sprintf(name, jti)]}

NextNames == \E name \in SpawnNames, jti \in XidStrings : SpawnName(name, jti)

SpecNames == InitAll /\ [][NextNames]_vars

(***************************************************************************)
(* C21: two spawns with different pairs of name and token id never get the *)
(* same container name: uname determines the name and the jti.             *)
(***************************************************************************)
C21_UnameDeterminesPair ==
    \A x, y \in spawned : x.uname = y.uname => (x.name = y.name /\ x.jti = y.jti)

\* two spawns whose names differ only in where the hyphens fall
C21_Witness ==
    \E x, y \in spawned :
        /\ x.name = <<"a">> /\ y.name = <<"a", "-", "0">>
        /\ x.jti = y.jti /\ x.uname # y.uname
        /\ Len(y.uname) = Len(x.uname) + 2

C23_OnlyOwnEntryDeleted ==
    /\ [][ \A w \in HubWSIDs :
             (golems[w] # Nil /\ golems'[w] = Nil) =>
                LET g == golems[w] IN
                \/ gol[g].pc = "deferred" /\ gol'[g].pc = "done"
                \/ gol[g].wpc = "delete" /\ gol'[g].wpc = "exit" ]_vars
    /\ [](\A g \in GolemConns :
            gol[g].pc = "read" =>
               /\ golems[gol[g].ws] = g
               /\ \A h \in GolemConns \ {g} :
                     gol[h].ws = gol[g].ws => gol[h].pc \notin {"upgrade", "read"})


(***************************************************************************)
(* The balance of a subject as the sum of what was granted and debited.    *)
(***************************************************************************)
\* the crd claim of the token a subject's token id belongs to
GrantOf(sub, jti) ==
    LET toks == { t \in DaemonTokens : t.sub = sub /\ t.jti = jti }
    IN  IF toks = {} THEN 0 ELSE (CHOOSE t \in toks : TRUE).crd

RECURSIVE SumGrants(_, _)
SumGrants(sub, jtis) ==
    IF jtis = {} THEN 0
    ELSE LET j == CHOOSE x \in jtis : TRUE
         IN  GrantOf(sub, j) + SumGrants(sub, jtis \ {j})

\* the amounts of the successful Record calls of the daemons in ds: each tick
\* debits TickCredits of an elapsed time in TickNanos
RECURSIVE SumDebits(_)
SumDebits(ds) ==
    IF ds = {} THEN 0
    ELSE LET d == CHOOSE x \in ds : TRUE
         IN  debits[d] * TickCredits(NanosPerSecond) + SumDebits(ds \ {d})

RecordedTokens(sub) == { j \in TokenIDs : db[sub].Tokens[j] # <<>> }

MeteredDaemons(sub) == { d \in Daemons : mpc[d] # "none" /\ subjectOf(d) = sub }

(***************************************************************************)
(* C24: in every reachable state, under every interleaving of the top-ups  *)
(* and the metering debits of the daemons of a subject, the stored Credits *)
(* of the subject is the sum of the grants of the token ids recorded in    *)
(* Tokens minus the sum of the amounts of the successful Record calls.     *)
(***************************************************************************)
C24_BalanceIsGrantsMinusDebits ==
    /\ \A e \in TickNanos : TickCredits(e) = TickCredits(NanosPerSecond)
    /\ \A sub \in Subjects :
          IF db[sub].exists
          THEN /\ db[sub].Credits # <<>>
               /\ Atoi(db[sub].Credits) =
                     SumGrants(sub, RecordedTokens(sub))
                        - SumDebits(MeteredDaemons(sub))
          ELSE RecordedTokens(sub) = {} /\ MeteredDaemons(sub) = {}

\* both tokens of subject a were granted and each of its two daemons has debited
C24_Witness ==
    /\ RecordedTokens("a") = {"j1", "j2"}
    /\ MeteredDaemons("a") = Daemons
    /\ \A d \in Daemons : debits[d] > 0
    /\ Atoi(db["a"].Credits) = 1

(***************************************************************************)
(* C25: when the writer of an open connect-to socket closes it on the      *)
(* minion's done signal, every frame queued on the minion's from channel,  *)
(* and the minion-disconnected event queued after them, has been written   *)
(* to that socket: the channel is empty and the event is the last frame    *)
(* written.                                                                *)
(***************************************************************************)
C25_QueueDrainedBeforeClose ==
    [][ \A p \in PairConns :
          (pair[p].wpc = "run" /\ pair'[p].wpc = "exit" /\ pair[p].sock = "open") =>
             LET m == pair[p].minion IN
             /\ mini[m].from = <<>>
             /\ pair[p].out # <<>>
             /\ pair[p].out[Len(pair[p].out)] = EventMessage(NewMinionDisconnected(m)) ]_vars

(***************************************************************************)
(* The teardown of a minion session under fair scheduling: one golem       *)
(* control socket and the minion sockets of its webstrate.  Every step of  *)
(* a handler or writer goroutine that is ready is eventually taken; the    *)
(* peers (connects, frames arriving, sockets failing) are under no         *)
(* obligation.                                                             *)
(***************************************************************************)
TeardownGolems == {"g1"}
\* the type query parameter of the minions: it only labels minion-connected
TeardownTypes == {"worker"}

\* the steps of the goroutines of golem connection g
GolemSteps(g) ==
    \/ GolemConnectRegister(g)
    \/ GolemReadError(g)
    \/ GolemDeferred(g)
    \/ GolemWrite(g)
    \/ GolemWriterDone(g)
    \/ GolemWriterDelete(g)

\* the steps of the goroutines of minion connection m; no connect-to socket is
\* open, so minion.to stays empty and the writer only ever takes golem.done
MinionSteps(m) ==
    \/ MinionPoll(m)
    \/ MinionNotFound(m)
    \/ MinionStartWriter(m)
    \/ MinionAnnounce(m)
    \/ MinionForward(m)
    \/ MinionReadError(m)
    \/ MinionDisconnectedToGolem(m)
    \/ MinionDisconnectedToFrom(m)
    \/ MinionSignalDone(m)
    \/ MinionDeferred(m)
    \/ MinionWriterGolemDone(m)

NextTeardown ==
    \/ \E g \in TeardownGolems : GolemSocketDrop(g)
    \/ \E m \in MinionConns : MinionSocketDrop(m)
    \/ \E g \in TeardownGolems, w \in HubWSIDs : GolemConnectLock(g, w)
    \/ \E g \in TeardownGolems, ok \in BOOLEAN : GolemUpgrade(g, ok)
    \/ \E g \in TeardownGolems : GolemSteps(g)
    \/ \E m \in MinionConns, w \in HubWSIDs, t \in TeardownTypes : MinionRegister(m, w, t)
    \/ \E m \in MinionConns, ok \in BOOLEAN : MinionUpgrade(m, ok)
    \/ \E m \in MinionConns : MinionRead(m)
    \/ \E m \in MinionConns : MinionSteps(m)

FairTeardown ==
    /\ \A g \in TeardownGolems : WF_vars(GolemSteps(g))
    /\ \A m \in MinionConns : WF_vars(MinionSteps(m))

SpecTeardown == InitAll /\ [][NextTeardown]_vars /\ FairTeardown

(***************************************************************************)
(* C26: once the socket of a minion in its read loop has closed, its       *)
(* session is eventually deleted from minions[wsid] after its handler has  *)
(* signalled done, whatever the golem does and however many messages are   *)
(* queued on golem.to and on the minion's from channel.                    *)
(***************************************************************************)
C26_ClosedMinionTornDown ==
    \A m \in MinionConns :
        (mini[m].pc \in {"read", "forward"} /\ mini[m].sock # "open")
            ~> (mini[m].pc = "done" /\ m \notin minions[mini[m].ws])

(***************************************************************************)
(* C27: after the read of a golem's socket has failed, eventually          *)
(* golems[wsid] holds no entry for that golem and its socket has been      *)
(* closed by the hub.                                                      *)
(***************************************************************************)
C27_FailedGolemCleanedUp ==
    \A g \in TeardownGolems :
        (gol[g].pc = "deferred" /\ gol[g].wpc # "none")
            ~> (golems[gol[g].ws] # g /\ gol[g].sock = "closed")

(***************************************************************************)
(* The daemons under fair scheduling: the supervisor goroutine and the     *)
(* metering goroutine take every step that stays ready (the poll after its *)
(* one-second sleep, the deferred remove, the receive from done, the kill  *)
(* after a refused debit and the deferred send on options.Done).           *)
(***************************************************************************)
SupervisorSteps(d) == SupervisorPoll(d) \/ SupervisorRemove(d)

MeterExitSteps(d) == MeterDone(d) \/ MeterKill(d) \/ MeterNotify(d)

FairDaemon ==
    \A d \in Daemons : WF_vars(SupervisorSteps(d)) /\ WF_vars(MeterExitSteps(d))

SpecDaemonFair == InitDaemon /\ [][NextDaemon]_vars /\ FairDaemon

(***************************************************************************)
(* C28: when the supervisor's poll finds the container of a daemon not     *)
(* running, it sends on done, once in the life of the daemon, and then     *)
(* force-removes the container; the metering task then leaves its loop and *)
(* exits; and once the metering task has left its loop the daemon debits   *)
(* nothing more.                                                           *)
(***************************************************************************)
C28_DeadContainerEndsMetering ==
    /\ [][ \A d \in Daemons :
              /\ doneCh'[d] > doneCh[d] =>
                    /\ spc[d] = "poll" /\ cont[d] # "running"
                    /\ doneCh'[d] = doneCh[d] + 1
                    /\ spc'[d] = "remove"
              /\ spc[d] \in {"remove", "done"} => spc'[d] \in {"remove", "done"}
              /\ mpc[d] \in {"kill", "notify", "exited"} =>
                    /\ debits'[d] = debits[d]
                    /\ mpc'[d] # "tick" ]_vars
    /\ [](\A d \in Daemons : spc[d] = "done" => cont[d] = "removed")
    /\ \A d \in Daemons :
          (spc[d] = "poll" /\ cont[d] # "running")
             ~> (spc[d] = "done" /\ cont[d] = "removed" /\ mpc[d] = "exited")

\* a daemon that debited, whose container exited by itself, whose supervisor
\* signalled and removed it and whose metering task received the signal
C28_Witness ==
    /\ spc["d1"] = "done" /\ cont["d1"] = "removed"
    /\ mpc["d1"] = "exited" /\ doneCh["d1"] = 0
    /\ debits["d1"] > 0 /\ Remaining(db, subjectOf("d1")) > 0

(***************************************************************************)
(* The supervisor of a daemon spawned with restart = true, as the          *)
(* specification of runDaemonized describes it: it polls the container     *)
(* every second; a container that exited by itself is recreated and        *)
(* restarted, unless that would follow three consecutive fast restarts; a  *)
(* container that is gone, or the fourth fast exit, ends the supervisor,   *)
(* which signals done and force-removes the container.                     *)
(***************************************************************************)
\* Options.Restart as SpawnHandler sets it
OptionsRestart == TRUE

\* the consecutive fast restarts after which the supervisor gives up
MaxFastRestarts == 3

\* a restart is fast when the container ran no longer than this, in seconds
FastWindow == 10

\* the seconds a container ran before the poll found it exited
RunSeconds == {1, FastWindow, FastWindow + 1}

IsFast(ran) == ran <= FastWindow

\* the poll's InspectContainer: "gone" when it fails, else whether it runs
Inspect(d) ==
    CASE cont[d] = "running" -> "running"
      [] cont[d] \in {"created", "exited"} -> "exited"
      [] OTHER -> "gone"

\* a supervisor that never gives up
Restarts_NoCap(restart, found, fast, ran) ==
    restart /\ found = "exited"

\* whether the supervisor restarts what the poll found
Restarts(restart, found, fast, ran) ==
    restart /\ found = "exited" /\ ~(IsFast(ran) /\ fast >= MaxFastRestarts)

\* the poll finds the container not running: restart it, or signal done
RestartPoll(d, ran) ==
    /\ UNCHANGED idleRestart
    /\ spc[d] = "poll"
    /\ Inspect(d) # "running"
    /\ IF Restarts(OptionsRestart, Inspect(d), fastRestarts[d], ran)
       THEN /\ spc' = [spc EXCEPT ![d] = "restart"]
            /\ fastRestarts' = [fastRestarts EXCEPT ![d] = IF IsFast(ran) THEN @ + 1 ELSE 0]
            /\ UNCHANGED doneCh
       ELSE /\ spc' = [spc EXCEPT ![d] = "remove"]
            /\ doneCh' = [doneCh EXCEPT ![d] = @ + 1]
            /\ UNCHANGED fastRestarts
    /\ UNCHANGED <<ledgerVars, dpc, dreq, dcredits, cont, mpc, debits, foreign,
                   extDone>>

\* the supervisor recreates the container under its name and starts it
RestartContainer(d) ==
    /\ UNCHANGED idleRestart
    /\ spc[d] = "restart"
    /\ cont' = [cont EXCEPT ![d] = "running"]
    /\ spc' = [spc EXCEPT ![d] = "poll"]
    /\ UNCHANGED <<ledgerVars, dpc, dreq, dcredits, doneCh, mpc, debits, foreign,
                   extDone, fastRestarts>>

\* daemon.Kill by the owner: List matches one running container of that name
\* and subject, and container.Kill force-removes it
OwnerKill(d) ==
    /\ UNCHANGED idleRestart
    /\ dpc[d] = "resp200"
    /\ WithName(unameOf(d)) = {d}
    /\ cont' = [cont EXCEPT ![d] = "removed"]
    /\ UNCHANGED <<ledgerVars, dpc, dreq, dcredits, spc, doneCh, mpc, debits, foreign,
                   extDone, fastRestarts>>

RestartDaemons == {"d1"}

NextRestart ==
    \/ \E d \in RestartDaemons, tok \in DaemonTokens, name \in DaemonNames :
          SpawnTopUp(d, tok, name)
    \/ \E d \in RestartDaemons : SpawnCheckCredits(d)
    \/ \E d \in RestartDaemons, outcome \in {"ok", "pullfail", "startfail"} :
          SpawnRun(d, outcome)
    \/ \E d \in RestartDaemons : ContainerExit(d)
    \/ \E d \in RestartDaemons, ran \in RunSeconds : RestartPoll(d, ran)
    \/ \E d \in RestartDaemons : RestartContainer(d)
    \/ \E d \in RestartDaemons : SupervisorRemove(d)
    \/ \E d \in RestartDaemons : OwnerKill(d)
    \/ \E d \in RestartDaemons, elapsed \in TickNanos : MeterTick(d, elapsed)
    \/ \E d \in RestartDaemons : MeterKill(d)
    \/ \E d \in RestartDaemons : MeterDone(d)
    \/ \E d \in RestartDaemons : MeterNotify(d)

SpecRestart == InitAll /\ [][NextRestart]_vars

C31_OneDoneNotification ==
    /\ [][ \A d \in Daemons :
              /\ extDone'[d] # extDone[d] /\ extDone'[d] = "got" =>
                    mpc[d] = "notify" /\ mpc'[d] = "exited"
              /\ extDone[d] = "got" => extDone'[d] = "got"
              /\ mpc[d] = "exited" => mpc'[d] = "exited" ]_vars
    /\ [](\A d \in Daemons : mpc[d] = "exited" <=> extDone[d] = "got")
    /\ \A d \in Daemons : mpc[d] = "notify" ~> (mpc[d] = "exited" /\ extDone[d] = "got")

\* d1's task ended after a refused debit, before its supervisor signalled;
\* d2's task ended on its supervisor's done; both notifications were received
C31_Witness ==
    /\ mpc["d1"] = "exited" /\ extDone["d1"] = "got" /\ doneCh["d1"] = 1
    /\ mpc["d2"] = "exited" /\ extDone["d2"] = "got" /\ doneCh["d2"] = 0
    /\ spc["d2"] = "done" /\ debits["d2"] > 0

(***************************************************************************)
(* Two connect-to sockets on one minion session, under fair scheduling:    *)
(* one golem, one minion that connects after it and whose socket fails,    *)
(* and two pairing requests.  No data frames are sent; every step of a     *)
(* handler or writer goroutine that stays ready is eventually taken.       *)
(***************************************************************************)
\* the steps of the goroutines of pairing connection p
PairSteps(p) ==
    \/ PairHello(p)
    \/ PairReadError(p)
    \/ PairBye(p)
    \/ PairWrite(p)
    \/ PairWriterDone(p)

\* the steps of the minion's goroutines once a golem is registered
PairedMinionSteps(m) ==
    \/ MinionStartWriter(m)
    \/ MinionAnnounce(m)
    \/ MinionReadError(m)
    \/ MinionDisconnectedToGolem(m)
    \/ MinionDisconnectedToFrom(m)
    \/ MinionSignalDone(m)
    \/ MinionDeferred(m)
    \/ MinionWrite(m)

NextPairing ==
    \/ \E g \in SessionGolems, w \in HubWSIDs : GolemConnectLock(g, w)
    \/ \E g \in SessionGolems : GolemConnectRegister(g)
    \/ \E g \in SessionGolems : GolemUpgrade(g, TRUE)
    \/ \E g \in SessionGolems : GolemWrite(g)
    \/ \E m \in SessionMinions, w \in HubWSIDs :
          golems[w] # Nil /\ MinionRegister(m, w, "worker")
    \/ \E m \in SessionMinions : MinionUpgrade(m, TRUE)
    \/ \E m \in SessionMinions : MinionSocketDrop(m)
    \/ \E m \in SessionMinions : PairedMinionSteps(m)
    \/ \E p \in PairConns, w \in HubWSIDs, id \in SessionMinions : PairResolve(p, w, id)
    \/ \E p \in PairConns, ok \in BOOLEAN : PairUpgrade(p, ok)
    \/ \E p \in PairConns : PairSocketDrop(p)
    \/ \E p \in PairConns : PairSteps(p)

FairPairing ==
    /\ \A g \in SessionGolems : WF_vars(GolemConnectRegister(g) \/ GolemWrite(g))
    /\ \A m \in SessionMinions : WF_vars(PairedMinionSteps(m))
    /\ \A p \in PairConns : WF_vars(PairSteps(p))

SpecPairing == InitAll /\ [][NextPairing]_vars /\ FairPairing

(***************************************************************************)
(* C32: once the handler of a minion session has signalled done, every     *)
(* connect-to socket whose writer runs on that session is eventually       *)
(* closed by its writer, which then returns.                               *)
(***************************************************************************)
C32_DoneClosesEveryPairing ==
    \A p \in PairConns :
        ( /\ pair[p].wpc = "run"
          /\ mini[pair[p].minion].wpc = "run"
          /\ mini[pair[p].minion].pc \in {"deferred", "done"} )
            ~> (pair[p].sock = "closed" /\ pair[p].wpc = "exit")

(***************************************************************************)
(* C33: no writer goroutine outlives its session: once the handler of a    *)
(* minion or of a golem has returned, after its read failed, the writer    *)
(* goroutine it started eventually returns too.                            *)
(***************************************************************************)
C33_WritersEndWithSession ==
    /\ \A m \in MinionConns :
          (mini[m].pc = "done" /\ mini[m].wpc = "run") ~> (mini[m].wpc # "run")
    /\ \A g \in TeardownGolems :
          (gol[g].pc = "done" /\ gol[g].wpc = "run") ~> (gol[g].wpc # "run")

(***************************************************************************)
(* The goroutines that send on and receive from the hub's channels.        *)
(***************************************************************************)
\* the writers that select on golem.done: the golem's and each minion's
GolemDoneConsumers(g) ==
    { x \in {g} : gol[g].wpc = "run" }
       \cup { m \in MinionConns : mini[m].golem = g /\ mini[m].wpc = "run" }

\* the minion handlers that send on golem.to
GolemToProducers(g) ==
    { m \in MinionConns : /\ mini[m].golem = g
                           /\ mini[m].pc \in {"announce", "read", "forward", "tellgolem"} }

\* the pairing handlers that send on minion.to
MinionToProducers(m) ==
    { p \in PairConns : /\ pair[p].minion = m
                         /\ pair[p].pc \in {"hello", "read", "forward", "bye"} }

\* the pairing writers that receive from minion.from and minion.done
MinionFromConsumers(m) ==
    { p \in PairConns : pair[p].minion = m /\ pair[p].wpc = "run" }

(***************************************************************************)
(* C34: at any time each of golem.to, golem.done, minion.to, minion.from   *)
(* and minion.done has at most one goroutine sending on it and at most one *)
(* receiving from it.                                                      *)
(***************************************************************************)
C34_SingleProducerSingleConsumer ==
    /\ \A g \in GolemConns :
          /\ Cardinality(GolemDoneConsumers(g)) <= 1
          /\ Cardinality(GolemToProducers(g)) <= 1
    /\ \A m \in MinionConns :
          /\ Cardinality(MinionToProducers(m)) <= 1
          /\ Cardinality(MinionFromConsumers(m)) <= 1

(***************************************************************************)
(* The hub's mutex.                                                        *)
(***************************************************************************)
\* the handlers inside the critical section that registers a golem
InCriticalSection == { g \in GolemConns : gol[g].pc = "check" }

\* the goroutines that are at a mutex.Lock() of a section that deletes
LockWaiters ==
    { g \in GolemConns : gol[g].pc = "deferred" \/ gol[g].wpc = "delete" }
       \cup { m \in MinionConns : mini[m].pc = "deferred" }

(***************************************************************************)
(* Contention for the mutex under fair scheduling: two golem connects and  *)
(* one minion on one webstrate.                                            *)
(***************************************************************************)
MutexGolems == {"g1", "g2"}
MutexMinions == {"m1"}

NextMutex ==
    \/ \E g \in MutexGolems : GolemSocketDrop(g)
    \/ \E m \in MutexMinions : MinionSocketDrop(m)
    \/ \E g \in MutexGolems, w \in HubWSIDs : GolemConnectLock(g, w)
    \/ \E g \in MutexGolems, ok \in BOOLEAN : GolemUpgrade(g, ok)
    \/ \E g \in MutexGolems : GolemSteps(g)
    \/ \E m \in MutexMinions, w \in HubWSIDs : MinionRegister(m, w, "worker")
    \/ \E m \in MutexMinions, ok \in BOOLEAN : MinionUpgrade(m, ok)
    \/ \E m \in MutexMinions : MinionRead(m)
    \/ \E m \in MutexMinions : MinionSteps(m)

FairMutex ==
    /\ \A g \in MutexGolems : WF_vars(GolemSteps(g))
    /\ \A m \in MutexMinions : WF_vars(MinionSteps(m))

SpecMutex == InitAll /\ [][NextMutex]_vars /\ FairMutex

C36_BalanceNeverNegative ==
    /\ \A t \in DaemonTokens : t.crd >= 0
    /\ \A e \in TickNanos : TickCredits(e) = 1
    /\ \A sub \in Subjects :
          db[sub].exists => (db[sub].Credits # <<>> /\ Atoi(db[sub].Credits) >= 0)

\* two daemons of subject a have both debited, the balance is 0 and the
\* last debit was refused
C36_Witness ==
    /\ \A d \in Daemons : subjectOf(d) = "a" /\ debits[d] > 0
    /\ Atoi(db["a"].Credits) = 0
    /\ lastCall.op = "Record" /\ lastCall.id = "a" /\ lastCall.err = "no credits left"

(***************************************************************************)
(* The ports of a daemon: Spawn asks the facade for an outside port for    *)
(* each declared inside port and keeps two maps; run turns the map         *)
(* outside -> inside into the engine's port bindings.                      *)
(***************************************************************************)
\* SpawnHandler: json.Unmarshal of the "ports" form value into []int
PortsRequest(ps) ==
    /\ UNCHANGED idlePorts
    /\ ppc = "idle"
    /\ optionsPorts' = ps
    /\ ppc' = "allocate"
    /\ UNCHANGED <<nextPort, ports, invertedPorts, portBindings>>

\* GetAvailableHostPort: the port the kernel assigns to a listener on port 0,
\* which is closed again before the function returns: any free port of the host
GetAvailableHostPort == HostPorts

\* one round of the loop over options.Ports: ports[outsidePort] = insidePort;
\* invertedPorts[insidePort] = outsidePort
AllocatePort(outsidePort) ==
    /\ UNCHANGED idlePorts
    /\ ppc = "allocate"
    /\ nextPort <= Len(optionsPorts)
    /\ outsidePort \in GetAvailableHostPort
    /\ LET insidePort == optionsPorts[nextPort] IN
         /\ ports' = [ports EXCEPT ![outsidePort] = insidePort]
         /\ invertedPorts' = [invertedPorts EXCEPT ![insidePort] = outsidePort]
    /\ nextPort' = nextPort + 1
    /\ UNCHANGED <<ppc, optionsPorts, portBindings>>

\* run: for outsidePort, insidePort := range ports, portBindings[insidePort] is
\* set to outsidePort; the order of a map's range is not fixed, so an inside
\* port with several outside ports is bound to any one of them
RunBindings(b) ==
    /\ UNCHANGED idlePorts
    /\ ppc = "allocate"
    /\ nextPort > Len(optionsPorts)
    /\ \A i \in InsidePorts :
          IF \E o \in HostPorts : ports[o] = i
          THEN b[i] # NoPort /\ ports[b[i]] = i
          ELSE b[i] = NoPort
    /\ portBindings' = b
    /\ ppc' = "bound"
    /\ UNCHANGED <<optionsPorts, nextPort, ports, invertedPorts>>

\* the declared ports of a request: up to MaxPorts of them, repeats included
PortLists == UNION { [1..n -> InsidePorts] : n \in 0..MaxPorts }

NextPorts ==
    \/ \E ps \in PortLists : PortsRequest(ps)
    \/ \E o \in HostPorts : AllocatePort(o)
    \/ \E b \in [InsidePorts -> HostPorts \cup {NoPort}] : RunBindings(b)

SpecPorts == InitAll /\ [][NextPorts]_vars

\* the keys of a map that have an entry
Keys(m) == { k \in DOMAIN m : m[k] # NoPort }

(***************************************************************************)
(* C37: when the container of a spawn has been created, the returned map   *)
(* inside -> outside has an entry for every declared inside port, its      *)
(* outside ports are pairwise distinct, the map outside -> inside handed   *)
(* to the engine is its exact inverse, and every declared inside port is   *)
(* bound to the outside port reported for it.                              *)
(***************************************************************************)
C37_PortMapsInverse ==
    ppc = "bound" =>
       /\ Keys(invertedPorts) = { optionsPorts[n] : n \in DOMAIN optionsPorts }
       /\ \A i, j \in Keys(invertedPorts) :
             invertedPorts[i] = invertedPorts[j] => i = j
       /\ \A o \in HostPorts, i \in InsidePorts :
             ports[o] = i <=> invertedPorts[i] = o
       /\ \A i \in Keys(invertedPorts) : portBindings[i] = invertedPorts[i]

(***************************************************************************)
(* C38: a call of run that fails at the create or the start step leaves no *)
(* container of its own behind: when the spawn answers with the error, the *)
(* container the call created has been removed.                            *)
(***************************************************************************)
C38_FailedRunLeavesNoContainer ==
    [][ \A d \in Daemons :
          dpc[d] = "spawn" /\ dpc'[d] = "resp500" => cont'[d] \in {"none", "removed"} ]_vars

\* the containers an attach request names: those of the caller's subject whose
\* name is the requested name, bare or with the suffix a spawn gives it
AttachNamed(a) ==
    { c \in ListContainers(HasLabelSubject(areq[a].t.claims.sub), TRUE) :
        \/ eng[c].name = areq[a].name
        \/ \E j \in TokenIDs : eng[c].name = Uname(areq[a].name, j) }

(***************************************************************************)
(* C39: an attach request is bridged only to a container that has the      *)
(* requested name and the caller's subject, and it fails when there is no  *)
(* such container: never a container of another name or another subject.   *)
(***************************************************************************)
C39_AttachOnlyNamedContainer ==
    [][ \A a \in ApiRequests :
          apc[a] = "attach" /\ apc'[a] # "attach" =>
             IF AttachNamed(a) = {}
             THEN apc'[a] = "closed"
             ELSE apc'[a] = "attached" /\ aresp'[a] \subseteq AttachNamed(a) ]_vars

=============================================================================
